---------------------------- MODULE Spec2Model ----------------------------
(***************************************************************************)
(* Model of the moderation bot: the per-message pipeline (on_message), the *)
(* message-deleted, reaction-added and ready handlers, the moderation      *)
(* store (users, banned_gifs, whitelist, reactions), the slash commands    *)
(* that mutate the store and the configuration, and the two audit          *)
(* commands.                                                               *)
(*                                                                         *)
(* Specifications: EngineSpec (the pipeline over every kind of message),   *)
(* Spec (commands interleaved with the pipeline), CommandSpec (commands    *)
(* alone), StoreSpec (the Database methods called directly), AuditSpec     *)
(* (the audit commands over guilds whose histories are readable or not),   *)
(* LiveSpec (the handlers and the audits side by side), SystemSpec         *)
(* (handlers, audits and commands side by side), ConcurrentSpec (the       *)
(* handlers of several messages suspended at once), FreshSpec (the whole   *)
(* bot on the database quickstart creates), FilterSpec (the pipeline while *)
(* the filter is toggled) and ReactionSpec (the reaction commands over     *)
(* tables with duplicate rows).                                            *)
(*                                                                         *)
(* Handlers are asyncio coroutines: the code between two awaits runs       *)
(* atomically, so every action below is one such segment.  A segment ends  *)
(* by issuing a gateway call (delete, send, add_reaction); the action that *)
(* resumes the handler chooses the call's outcome among those the platform *)
(* can produce and runs the code up to the next await.                     *)
(*                                                                         *)
(* Text (message bodies, urls, classifiers) is a sequence of characters;   *)
(* Python's `a in b` on strings is substring containment, on lists it is   *)
(* membership.                                                             *)
(***************************************************************************)
EXTENDS Naturals, Sequences, FiniteSets, TLC

\* ------------------------------------------------------------------ bounds

\* Number of message-created events the gateway delivers.
MaxMsgs == 1

\* Largest number of rows the reactions table is let to grow to by the
\* reaction commands.
MaxReactionRows == 1

\* Largest number of rows a table is let to grow to by direct calls of the
\* Database methods.
MaxRows == 2

\* Number of message-count audits an owner runs.
MaxAuditRuns == 2

\* Number of message-created events whose handlers run side by side.
MaxConcurrent == 2

\* --------------------------------------------------- platform and config

\* bot.user.id
BotId == "bot"

\* config.owonerId: the owner set.
owonerId == {"owner"}

\* Users whose top_role has the administrator permission.
Administrators == {"admin"}

UserIds == {"bot", "owner", "admin", "alice", "bob"}

\* Users that post messages and invoke commands in the model.
Authors == {"bot", "owner", "admin", "bob"}
Invokers == {"owner", "admin", "bob"}

\* config.gifClassifiers: the two classifier prefixes of the default config.
gifClassifiers == << <<"t">>, <<"m">> >>

\* Urls given to the ban / exception commands, and message bodies.
Urls == { <<"a">>, <<"t", "a">> }
Bodies == { <<"x">>, <<"t", "a">>, <<"x", "t", "a">>, <<"m", "a">> }

\* The links given to the exception commands.
ExceptionUrls == { <<"t", "a">> }

\* Reaction tokens and the users the reaction commands are given.
ReactionTokens == {"r1", "r2"}
ReactionTargets == {"bob"}

\* The options given to /setstatus: a status text, and a type among the
\* command's choices or not.
Statuses == {"s1"}
StatusTypes == {"watching", "Watching", "dancing"}

\* bot.guilds: guild g1 with the channels c1, cat (a category) and c2, guild
\* g2 with the channel c3, in the order the audit walks them; and
\* guild.members of the guild of each channel.
ChannelOrder == <<"c1", "cat", "c2", "c3">>
ChannelIds == {"c1", "cat", "c2", "c3"}
MembersOf ==
    [c \in ChannelIds |-> IF c = "c3" THEN {"alice"} ELSE {"bob", "owner"}]

\* The user ids bot.get_user resolves; the others get no user object.
ResolvableIds == {"bot", "owner", "admin", "alice", "bob"}

MsgIds == 1..MaxMsgs

\* message.reference: None, a reference the gateway did not resolve (or whose
\* target is deleted: resolved has no author), or a reference resolved to
\* the platform message 0, written by alice.
NoReference == [kind |-> "none", message_id |-> 0, author |-> "-"]
UnresolvedReference == [kind |-> "unresolved", message_id |-> 0, author |-> "-"]
ResolvedReference == [kind |-> "resolved", message_id |-> 0, author |-> "alice"]

\* (reference, is_system()) of the messages the gateway delivers: an ordinary
\* message, a reply to a deleted message, a system message that carries a
\* reference (a pin notice), and a reply.
MessageShapes ==
    { <<NoReference, FALSE>>, <<UnresolvedReference, FALSE>>,
      <<UnresolvedReference, TRUE>>, <<ResolvedReference, FALSE>> }

Message(author, content, shape) ==
    [author |-> author, content |-> content,
     reference |-> shape[1], system |-> shape[2]]

\* The message-created events of the pipeline's specification ...
Messages ==
    { Message(a, c, sh) : a \in Authors, c \in Bodies, sh \in MessageShapes }

\* ... and the few of them posted while commands run (Spec).
SampleMessages ==
    { Message("bob", <<"t", "a">>, <<NoReference, FALSE>>),
      Message("bob", <<"x", "t", "a">>, <<ResolvedReference, FALSE>>) }

\* Platform message ids: the delivered messages and the replied-to message 0.
PlatformIds == MsgIds \cup {0}

\* ------------------------------------------------------------------- text

\* Python `s in t` for two strings.
IsSubstring(s, t) ==
    \E i \in 0..(Len(t) - Len(s)) : SubSeq(t, i + 1, i + Len(s)) = s

\* Python `x in lst` for a list.
InList(x, lst) == \E i \in 1..Len(lst) : lst[i] = x

\* ------------------------------------------------------------------ state

VARIABLES
    users,            \* table users: id -> row, for the ids that have a row
    banned_gifs,      \* table banned_gifs: the url of each row, in rowid order
    whitelist,        \* table whitelist: the url of each row, in rowid order
    reactions,        \* table reactions: [reaction, applies_to] per row
    msgs,             \* the messages posted on the platform: id -> message
    task,             \* the on_message coroutine of each message
    platformDeleted,  \* platform messages that no longer exist
    deleteEvents,     \* message-deleted events not yet handled
    reactionEvents,   \* reaction-added events not yet handled: who reacted
    ready,            \* the on_ready coroutine: where it is
    config,           \* config.json: status, statusType, filterEnabled
    presence,         \* the activity last given to bot.change_presence
    responses,        \* what the last command's handler passed to ctx.respond
    ret,              \* the outcome of the last direct call of a Database method
    auditTask,        \* the coroutine of the audit command in progress
    channels          \* guild channels: what channel.history() yields or raises

vars == <<users, banned_gifs, whitelist, reactions, msgs, task,
          platformDeleted, deleteEvents, reactionEvents, ready, config,
          presence, responses, ret, auditTask, channels>>

storeVars == <<users, banned_gifs, whitelist, reactions>>
tableVars == <<banned_gifs, whitelist, reactions>>
engineVars == <<msgs, task, platformDeleted, deleteEvents, reactionEvents, ready>>
configVars == <<config, presence>>
auditVars == <<auditTask, channels>>
commandVars == <<config, presence, responses, ret, auditTask, channels>>

\* ------------------------------------------------------------------ store

\* Mutant of NewUser: a new row is opted in to filtering.
NewUserOptedIn(username) ==
    [username |-> username, apply_filter |-> TRUE, messages_sent |-> 0]

\* A users row as INSERT INTO users (id, username) creates it: the other
\* columns take their defaults.  The users table quickstart creates has no
\* messages_deleted column.
NewUser(username) ==
    [username |-> username, apply_filter |-> FALSE, messages_sent |-> 0]

\* member.name / user.name of a platform user.
Name(uid) == uid

checkUserExists(uid) == uid \in DOMAIN users

\* SELECT id FROM users where apply_filter=1, over the table tbl.
filteredUsers(tbl) == {uid \in DOMAIN tbl : tbl[uid].apply_filter}

\* SELECT id FROM banned_gifs WHERE url=?
checkGifBanned(gifUrl) == InList(gifUrl, banned_gifs)

\* for gif in bannedGifs: if gif[0] in message: return True
checkMessageBannedGifs(message) ==
    \E i \in 1..Len(banned_gifs) : IsSubstring(banned_gifs[i], message)

\* Mutant of checkUserAdmin: every user passes.
checkUserAdminAnyone(user) == TRUE

\* top_role.permissions.administrator or id in config.owonerId
checkUserAdmin(user) == user \in Administrators \/ user \in owonerId

\* INSERT INTO users (id, username): the table with the new row.
addUser(tbl, userId, username) == tbl @@ (userId :> NewUser(username))

\* UPDATE users SET messages_sent=messages_sent+1 WHERE id=?
incrementMessagesSent(tbl, uid) ==
    IF uid \in DOMAIN tbl
    THEN [tbl EXCEPT ![uid].messages_sent = @ + 1]
    ELSE tbl

\* Mutant of setMessagesSent: the value is added to the stored count.
setMessagesSentAdds(tbl, uid, value) ==
    IF uid \in DOMAIN tbl
    THEN [tbl EXCEPT ![uid].messages_sent = @ + value]
    ELSE tbl

\* UPDATE users SET messages_sent=? WHERE id=?
setMessagesSent(tbl, uid, value) ==
    IF uid \in DOMAIN tbl
    THEN [tbl EXCEPT ![uid].messages_sent = value]
    ELSE tbl

\* UPDATE users SET username=? WHERE id=?
setUsername(tbl, uid, username) ==
    IF uid \in DOMAIN tbl
    THEN [tbl EXCEPT ![uid].username = username]
    ELSE tbl

\* Mutant of addBannedGif: the insert is never committed.
addBannedGifNotCommitted(tbl, gifUrl) == tbl

\* INSERT INTO banned_gifs (banned_by, url, reason)
addBannedGif(tbl, gifUrl) == Append(tbl, gifUrl)

\* INSERT INTO whitelist (url, added_by)
addWhitelistedGif(tbl, gifUrl) == Append(tbl, gifUrl)

\* INSERT INTO reactions (reaction, added_by, applies_to)
addReaction(tbl, reaction, appliesTo) ==
    Append(tbl, [reaction |-> reaction, applies_to |-> appliesTo])

\* Mutant of removeBannedGif: every row whose url contains gifUrl goes.
removeBannedGifContaining(tbl, gifUrl) ==
    SelectSeq(tbl, LAMBDA row : ~IsSubstring(gifUrl, row))

\* DELETE FROM banned_gifs WHERE url=?
removeBannedGif(tbl, gifUrl) == SelectSeq(tbl, LAMBDA row : row # gifUrl)

\* DELETE FROM whitelist WHERE url=?
removeWhitelistedGif(tbl, gifUrl) == SelectSeq(tbl, LAMBDA row : row # gifUrl)

\* Mutant of removeReaction: only the oldest matching row is deleted.
removeReactionOldest(tbl, reaction, appliesTo) ==
    LET at == {i \in 1..Len(tbl) :
                  tbl[i].reaction = reaction /\ tbl[i].applies_to = appliesTo}
        first == CHOOSE i \in at : \A j \in at : i <= j
    IN  IF at = {} THEN tbl
        ELSE SubSeq(tbl, 1, first - 1) \o SubSeq(tbl, first + 1, Len(tbl))

\* DELETE FROM reactions WHERE reaction=? AND applies_to=?
removeReaction(tbl, reaction, appliesTo) ==
    SelectSeq(tbl, LAMBDA row :
        ~(row.reaction = reaction /\ row.applies_to = appliesTo))

\* Mutant of getUserReactions: the rows are not filtered by applies_to.
getUserReactionsOfAnyone(user) ==
    [i \in 1..Len(reactions) |-> reactions[i].reaction]

\* SELECT reaction FROM reactions WHERE applies_to=?
getUserReactions(user) ==
    LET rows == SelectSeq(reactions, LAMBDA row : row.applies_to = user)
    IN  [i \in 1..Len(rows) |-> rows[i].reaction]

\* What a call of a Database method gives its caller: the value it returns
\* or the exception it raises.
Returns(v) == [kind |-> "ok", value |-> v]
Raises(exc) == [kind |-> "raise", value |-> exc]

\* SELECT username FROM users WHERE id=? ; cursor.fetchone()[0]
\* fetchone() is None when no row matches, and None[0] raises TypeError.
getUserName(uid) ==
    IF checkUserExists(uid) THEN Returns(users[uid].username)
    ELSE Raises("TypeError")

\* SELECT messages_sent FROM users WHERE id=? ; cursor.fetchone()[0]
getMessagesSent(uid) ==
    IF checkUserExists(uid) THEN Returns(users[uid].messages_sent)
    ELSE Raises("TypeError")

\* SELECT COUNT(*) FROM users WHERE messages_sent >
\*     (SELECT messages_sent FROM users WHERE id=?) ; fetchone()[0] + 1
\* For an id without a row the subquery is NULL, no row compares greater
\* and the count is 0.
getMessagesSentRank(uid) ==
    Returns(Cardinality({u \in DOMAIN users :
                            /\ checkUserExists(uid)
                            /\ users[u].messages_sent > users[uid].messages_sent}) + 1)

\* SELECT messages_deleted FROM users WHERE id=? : the users table has no
\* such column, execute raises sqlite3.OperationalError.
getMessagesDeleted(uid) == Raises("OperationalError")

\* SELECT COUNT(*) FROM users WHERE messages_deleted > (...): no such column.
getMessagesDeletedRank(uid) == Raises("OperationalError")

\* Mutant of checkForGifClassifier: the whitelist is not consulted.
checkForGifClassifierNoWhitelist(message) ==
    \E i \in 1..Len(gifClassifiers) : IsSubstring(gifClassifiers[i], message)

\* for classifier in config.gifClassifiers:
\*     if classifier in message and message not in database.whitelistedGifs
checkForGifClassifier(message) ==
    \E i \in 1..Len(gifClassifiers) :
        /\ IsSubstring(gifClassifiers[i], message)
        /\ ~InList(message, whitelist)

\* ----------------------------------------------------- on_message pipeline

\* One entry of a handler's trace: a gateway call it issued, a check it
\* evaluated, a store write it made, the outcome of a call, or the exception
\* that ended it.  target is the platform message the call acts on.
Ev(call, step, target, arg) ==
    [call |-> call, step |-> step, target |-> target, arg |-> arg]

\* A coroutine: where it is suspended, its trace, and the local variables
\* userReactions and the index of the reaction being attached.
Task(pc, log, subs, i) == [pc |-> pc, log |-> log, userReactions |-> subs, i |-> i]

NoTask == Task("none", <<>>, <<>>, 0)

\* An uncaught exception ends the coroutine.
Raise(lg, step, target, exc) ==
    Task("failed", Append(lg, Ev("raise", step, target, exc)), <<>>, 0)

\* Lines 556-563: fetch the author's reactions and start the loop; the
\* coroutine suspends in the first add_reaction, or ends when there is none.
HandleReactions(m, lg) ==
    LET userReactions == getUserReactions(msgs[m].author)
    IN  IF userReactions = <<>>
        THEN Task("done", lg, userReactions, 0)
        ELSE Task("react",
                  Append(lg, Ev("add_reaction", "react", m, userReactions[1])),
                  userReactions, 1)

\* Mutant of RunReplyFilter: the reply filter runs only while
\* config.filterEnabled is set.
RunReplyFilterWhenEnabled(m, lg, tbl) ==
    LET message == msgs[m]
        lg1 == Append(lg, Ev("check", "reply", m, ""))
    IN  IF config.filterEnabled /\ message.reference.kind # "none" /\ ~message.system
        THEN IF message.reference.kind = "unresolved"
             THEN Raise(lg1, "reply", m, "AttributeError")
             ELSE IF /\ message.reference.author \in filteredUsers(tbl)
                     /\ ~checkUserAdmin(message.author)
                     /\ checkForGifClassifier(message.content)
                  THEN Task("replyDelete",
                            Append(lg1, Ev("delete", "reply", m, "")),
                            <<>>, 0)
                  ELSE HandleReactions(m, lg1)
        ELSE HandleReactions(m, lg)

\* Lines 547-554: the reply filter, over the users table tbl, up to its
\* await message.delete(); otherwise on to the reactions.
\* message.reference.resolved.author raises AttributeError when the
\* reference is not resolved to a message.
RunReplyFilter(m, lg, tbl) ==
    LET message == msgs[m]
        lg1 == Append(lg, Ev("check", "reply", m, ""))
    IN  IF message.reference.kind # "none" /\ ~message.system
        THEN IF message.reference.kind = "unresolved"
             THEN Raise(lg1, "reply", m, "AttributeError")
             ELSE IF /\ message.reference.author \in filteredUsers(tbl)
                     /\ ~checkUserAdmin(message.author)
                     /\ checkForGifClassifier(message.content)
                  THEN Task("replyDelete",
                            Append(lg1, Ev("delete", "reply", m, "")),
                            <<>>, 0)
                  ELSE HandleReactions(m, lg1)
        ELSE HandleReactions(m, lg)

\* Mutant of RunBannedCheck: for a reply, the reply filter's condition is
\* looked at ahead of the banned gifs check.
RunBannedCheckAfterReply(m, lg, tbl) ==
    LET message == msgs[m]
        lg1 == Append(lg, Ev("check", "reply", m, ""))
    IN  IF /\ message.reference.kind = "resolved"
           /\ ~message.system
           /\ checkMessageBannedGifs(message.content)
           /\ message.author \notin owonerId
        THEN Task("bannedDelete",
                  Append(lg1, Ev("delete", "banned", m, "Contains banned gif.")),
                  <<>>, 0)
        ELSE IF /\ checkMessageBannedGifs(message.content)
                /\ message.author \notin owonerId
        THEN Task("bannedDelete",
                  Append(lg, Ev("delete", "banned", m, "Contains banned gif.")),
                  <<>>, 0)
        ELSE RunReplyFilter(m, lg, tbl)

\* Mutant of RunBannedCheck: administrators are exempt as owners are.
RunBannedCheckExemptsAdmins(m, lg, tbl) ==
    LET message == msgs[m]
    IN  IF /\ checkMessageBannedGifs(message.content)
           /\ ~checkUserAdmin(message.author)
        THEN Task("bannedDelete",
                  Append(lg, Ev("delete", "banned", m, "Contains banned gif.")),
                  <<>>, 0)
        ELSE RunReplyFilter(m, lg, tbl)

\* Lines 541-544: the banned gifs check up to its await message.delete();
\* otherwise on to the reply filter.
RunBannedCheck(m, lg, tbl) ==
    LET message == msgs[m]
    IN  IF /\ checkMessageBannedGifs(message.content)
           /\ message.author \notin owonerId
        THEN Task("bannedDelete",
                  Append(lg, Ev("delete", "banned", m, "Contains banned gif.")),
                  <<>>, 0)
        ELSE RunReplyFilter(m, lg, tbl)

\* Mutant of SyncAuthor: a row created for the message is not counted.
SyncAuthorNewUncounted(tbl, author) ==
    IF author \in DOMAIN tbl
    THEN incrementMessagesSent(tbl, author)
    ELSE addUser(tbl, author, Name(author))

\* Lines 531-536: the author's row is created when missing, then counted.
SyncAuthor(tbl, author) ==
    incrementMessagesSent(
        IF author \in DOMAIN tbl THEN tbl ELSE addUser(tbl, author, Name(author)),
        author)

\* Mutant of IsOwnMessage: the self-message check never stops the pipeline.
IsOwnMessageNever(author) == FALSE

\* Line 538: message.author.id == bot.user.id
IsOwnMessage(author) == author = BotId

\* Mutant of OnMessage: the handler is suspended between checkUserExists and
\* addUser; the INSERT it makes when resumed raises sqlite3.IntegrityError
\* when the id has got a row in between.
OnMessageChecksThenSuspends(m) ==
    /\ m \in DOMAIN msgs
    /\ LET author == msgs[m].author
           lg == <<Ev("incrementMessagesSent", "sync", m, author)>>
       IN  \/ /\ task[m].pc = "queued"
              /\ ~checkUserExists(author)
              /\ task' = [task EXCEPT ![m] = Task("adding", <<>>, <<>>, 0)]
              /\ UNCHANGED users
           \/ /\ task[m].pc = "adding"
              /\ checkUserExists(author)
              /\ task' = [task EXCEPT ![m] = Raise(<<>>, "sync", m, "IntegrityError")]
              /\ UNCHANGED users
           \/ /\ \/ task[m].pc = "queued" /\ checkUserExists(author)
                 \/ task[m].pc = "adding" /\ ~checkUserExists(author)
              /\ users' = SyncAuthor(users, author)
              /\ task' = [task EXCEPT ![m] =
                            IF IsOwnMessage(author)
                            THEN Task("done", lg, <<>>, 0)
                            ELSE RunBannedCheck(m, lg, users')]
    /\ UNCHANGED <<tableVars, msgs, platformDeleted, deleteEvents>>
    /\ UNCHANGED commandVars
    /\ UNCHANGED <<reactionEvents, ready>>

\* Mutant of OnMessage: the count of a message is lost when another handler
\* for the same author is suspended in a gateway call.
OnMessageLosesCount(m) ==
    /\ m \in DOMAIN msgs
    /\ task[m].pc = "queued"
    /\ LET author == msgs[m].author
           busy == \E n \in DOMAIN msgs \ {m} :
                       /\ msgs[n].author = author
                       /\ task[n].pc \notin {"queued", "done", "failed"}
           tbl == IF busy /\ author \in DOMAIN users
                  THEN users
                  ELSE SyncAuthor(users, author)
           lg == <<Ev("incrementMessagesSent", "sync", m, author)>>
       IN  /\ users' = tbl
           /\ task' = [task EXCEPT ![m] =
                         IF IsOwnMessage(author)
                         THEN Task("done", lg, <<>>, 0)
                         ELSE RunBannedCheck(m, lg, tbl)]
    /\ UNCHANGED <<tableVars, msgs, platformDeleted, deleteEvents>>
    /\ UNCHANGED commandVars
    /\ UNCHANGED <<reactionEvents, ready>>

\* Mutant of OnMessage: the handler waits for a running audit to finish.
OnMessageAfterAudit(m) ==
    /\ auditTask.pc \notin {"ack", "history"}
    /\ m \in DOMAIN msgs
    /\ task[m].pc = "queued"
    /\ users' = SyncAuthor(users, msgs[m].author)
    /\ task' = [task EXCEPT ![m] =
                  IF IsOwnMessage(msgs[m].author)
                  THEN Task("done", <<Ev("incrementMessagesSent", "sync", m, msgs[m].author)>>, <<>>, 0)
                  ELSE RunBannedCheck(m, <<Ev("incrementMessagesSent", "sync", m, msgs[m].author)>>, users')]
    /\ UNCHANGED <<tableVars, msgs, platformDeleted, deleteEvents>>
    /\ UNCHANGED commandVars
    /\ UNCHANGED <<reactionEvents, ready>>

\* on_message, from its start to its first await (lines 531-544).
OnMessage(m) ==
    /\ m \in DOMAIN msgs
    /\ task[m].pc = "queued"
    /\ LET author == msgs[m].author
           tbl == SyncAuthor(users, author)
           lg == <<Ev("incrementMessagesSent", "sync", m, author)>>
       IN  /\ users' = tbl
           /\ task' = [task EXCEPT ![m] =
                         IF IsOwnMessage(author)
                         THEN Task("done", lg, <<>>, 0)
                         ELSE RunBannedCheck(m, lg, tbl)]
    /\ UNCHANGED <<tableVars, msgs, platformDeleted, deleteEvents>>
    /\ UNCHANGED commandVars
    /\ UNCHANGED <<reactionEvents, ready>>

\* The step whose await the coroutine is suspended in.
StepOf(pc) ==
    IF pc \in {"bannedDelete", "bannedSend"} THEN "banned" ELSE "reply"

\* message.channel of the messages the gateway delivers: a channel of guild
\* g1, where there are guilds.
LiveChannel == "c2"

\* The history of the channel a message of author is posted in.
Posted(chs, author) ==
    IF LiveChannel \in DOMAIN chs
    THEN [chs EXCEPT ![LiveChannel].history = Append(@, author)]
    ELSE chs

\* The history of the channel a message of author is deleted from: the
\* history without one message of author (the histories are read for their
\* authors only).
Removed(chs, author) ==
    IF LiveChannel \in DOMAIN chs
    THEN LET h == chs[LiveChannel].history
             at == {i \in DOMAIN h : h[i] = author}
             last == CHOOSE i \in at : \A j \in at : j <= i
         IN  IF at = {} THEN chs
             ELSE [chs EXCEPT ![LiveChannel].history =
                      SubSeq(h, 1, last - 1) \o SubSeq(h, last + 1, Len(h))]
    ELSE chs

\* message.delete() succeeds: the message is gone, the gateway will emit a
\* message-deleted event, and the coroutine goes on to channel.send (lines
\* 545, 554).
DeleteOk(m) ==
    /\ task[m].pc \in {"bannedDelete", "replyDelete"}
    /\ m \notin platformDeleted
    /\ platformDeleted' = platformDeleted \cup {m}
    /\ deleteEvents' = deleteEvents \cup {m}
    /\ channels' = Removed(channels, msgs[m].author)
    /\ task' = [task EXCEPT ![m] =
                  Task(IF task[m].pc = "bannedDelete" THEN "bannedSend" ELSE "replySend",
                       task[m].log \o
                           << Ev("deleted", StepOf(task[m].pc), m, ""),
                              Ev("send", StepOf(task[m].pc), m, "no.") >>,
                       <<>>, 0)]
    /\ UNCHANGED <<storeVars, msgs>>
    /\ UNCHANGED <<config, presence, responses, ret, auditTask>>
    /\ UNCHANGED <<reactionEvents, ready>>

\* message.delete() raises NotFound (the message is already gone): nothing
\* in on_message catches it.
DeleteNotFound(m) ==
    /\ task[m].pc \in {"bannedDelete", "replyDelete"}
    /\ m \in platformDeleted
    /\ task' = [task EXCEPT ![m] =
                  Raise(task[m].log, StepOf(task[m].pc), m, "NotFound")]
    /\ UNCHANGED <<storeVars, msgs, platformDeleted, deleteEvents>>
    /\ UNCHANGED commandVars
    /\ UNCHANGED <<reactionEvents, ready>>

\* message.delete() raises Forbidden (the bot may not manage messages).
DeleteForbidden(m) ==
    /\ task[m].pc \in {"bannedDelete", "replyDelete"}
    /\ task' = [task EXCEPT ![m] =
                  Raise(task[m].log, StepOf(task[m].pc), m, "Forbidden")]
    /\ UNCHANGED <<storeVars, msgs, platformDeleted, deleteEvents>>
    /\ UNCHANGED commandVars
    /\ UNCHANGED <<reactionEvents, ready>>

\* channel.send returns: after the banned gifs notice the code falls through
\* to the reply filter, after the reply filter's notice to the reactions.
SendOk(m) ==
    /\ task[m].pc \in {"bannedSend", "replySend"}
    /\ task' = [task EXCEPT ![m] =
                  IF task[m].pc = "bannedSend"
                  THEN RunReplyFilter(m, task[m].log, users)
                  ELSE HandleReactions(m, task[m].log)]
    /\ UNCHANGED <<storeVars, msgs, platformDeleted, deleteEvents>>
    /\ UNCHANGED commandVars
    /\ UNCHANGED <<reactionEvents, ready>>

\* channel.send raises Forbidden (the bot may not write to the channel).
SendForbidden(m) ==
    /\ task[m].pc \in {"bannedSend", "replySend"}
    /\ task' = [task EXCEPT ![m] =
                  Raise(task[m].log, StepOf(task[m].pc), m, "Forbidden")]
    /\ UNCHANGED <<storeVars, msgs, platformDeleted, deleteEvents>>
    /\ UNCHANGED commandVars
    /\ UNCHANGED <<reactionEvents, ready>>

\* Lines 560-578 after an add_reaction attempt ended with `outcome`: the
\* loop goes on to the next reaction, or the handler returns.
NextReaction(t, m, outcome) ==
    LET lg == Append(t.log, Ev(outcome, "react", m, t.userReactions[t.i]))
    IN  IF t.i < Len(t.userReactions)
        THEN Task("react",
                  Append(lg, Ev("add_reaction", "react", m, t.userReactions[t.i + 1])),
                  t.userReactions, t.i + 1)
        ELSE Task("done", lg, t.userReactions, t.i)

\* message.add_reaction succeeds: the gateway will emit a reaction-added
\* event for the bot's reaction.
ReactOk(m) ==
    /\ task[m].pc = "react"
    /\ m \notin platformDeleted
    /\ task' = [task EXCEPT ![m] = NextReaction(task[m], m, "attached")]
    /\ reactionEvents' = reactionEvents \cup {BotId}
    /\ UNCHANGED <<storeVars, msgs, platformDeleted, deleteEvents>>
    /\ UNCHANGED commandVars
    /\ UNCHANGED ready

\* Mutant of ReactFails: a reaction that cannot be attached is unsubscribed.
ReactFailsUnsubscribes(m, exc) ==
    /\ task[m].pc = "react"
    /\ exc \in {"Forbidden", "NotFound"}
    /\ task' = [task EXCEPT ![m] = NextReaction(task[m], m, exc)]
    /\ reactions' = removeReaction(reactions, task[m].userReactions[task[m].i],
                                   msgs[m].author)
    /\ UNCHANGED <<users, banned_gifs, whitelist, msgs, platformDeleted, deleteEvents>>
    /\ UNCHANGED commandVars
    /\ UNCHANGED <<reactionEvents, ready>>

\* message.add_reaction raises Forbidden or NotFound: caught and logged
\* (lines 566-578).
ReactFails(m, exc) ==
    /\ task[m].pc = "react"
    /\ exc \in {"Forbidden", "NotFound"}
    /\ task' = [task EXCEPT ![m] = NextReaction(task[m], m, exc)]
    /\ UNCHANGED <<storeVars, msgs, platformDeleted, deleteEvents>>
    /\ UNCHANGED commandVars
    /\ UNCHANGED <<reactionEvents, ready>>

\* ------------------------------------------------------ platform events

\* A user posts message m; the gateway queues its message-created event.
PostMessage(m, message) ==
    /\ m \notin DOMAIN msgs
    /\ m = Cardinality(DOMAIN msgs) + 1
    /\ msgs' = msgs @@ (m :> message)
    /\ task' = [task EXCEPT ![m] = Task("queued", <<>>, <<>>, 0)]
    /\ channels' = Posted(channels, message.author)
    /\ UNCHANGED <<storeVars, platformDeleted, deleteEvents>>
    /\ UNCHANGED <<config, presence, responses, ret, auditTask>>
    /\ UNCHANGED <<reactionEvents, ready>>

\* Somebody other than the bot deletes message m on the platform.
PlatformDelete(m) ==
    /\ m \in DOMAIN msgs
    /\ m \notin platformDeleted
    /\ platformDeleted' = platformDeleted \cup {m}
    /\ deleteEvents' = deleteEvents \cup {m}
    /\ channels' = Removed(channels, msgs[m].author)
    /\ UNCHANGED <<storeVars, msgs, task>>
    /\ UNCHANGED <<config, presence, responses, ret, auditTask>>
    /\ UNCHANGED <<reactionEvents, ready>>

\* Mutant of OnMessageDelete: a deletion takes the message off the count.
OnMessageDeleteUncounts(m) ==
    /\ m \in deleteEvents
    /\ task[m].pc # "queued"
    /\ deleteEvents' = deleteEvents \ {m}
    /\ users' = IF checkUserExists(msgs[m].author)
                THEN [users EXCEPT ![msgs[m].author].messages_sent =
                         IF @ > 0 THEN @ - 1 ELSE 0]
                ELSE addUser(users, msgs[m].author, Name(msgs[m].author))
    /\ UNCHANGED <<tableVars, msgs, task, platformDeleted>>
    /\ UNCHANGED commandVars
    /\ UNCHANGED <<reactionEvents, ready>>

\* on_message_delete (lines 582-598): the gateway delivers events in order,
\* so the message's on_message has started before.
OnMessageDelete(m) ==
    /\ m \in deleteEvents
    /\ task[m].pc # "queued"
    /\ deleteEvents' = deleteEvents \ {m}
    /\ users' = IF checkUserExists(msgs[m].author)
                THEN users
                ELSE addUser(users, msgs[m].author, Name(msgs[m].author))
    /\ UNCHANGED <<tableVars, msgs, task, platformDeleted>>
    /\ UNCHANGED commandVars
    /\ UNCHANGED <<reactionEvents, ready>>

\* A user reacts to a message the bot has received.
PlatformReact(user, m) ==
    /\ m \in DOMAIN msgs
    /\ m \notin platformDeleted
    /\ user \notin reactionEvents
    /\ reactionEvents' = reactionEvents \cup {user}
    /\ UNCHANGED <<storeVars, msgs, task, platformDeleted, deleteEvents, ready>>
    /\ UNCHANGED commandVars

\* on_reaction_add (lines 602-614): the event is logged, nothing else.
on_reaction_add(user) ==
    /\ user \in reactionEvents
    /\ reactionEvents' = reactionEvents \ {user}
    /\ UNCHANGED <<storeVars, msgs, task, platformDeleted, deleteEvents, ready>>
    /\ UNCHANGED commandVars

\* --------------------------------------------------------------- commands
\* Each command runs without suspending up to its ctx.respond, so its checks,
\* its store write and its answer are one step.  An answer is the text given
\* to ctx.respond, as a tuple of the fixed text and the values formatted in.

NotAdmin == <<"You are not an admin!">>

\* Mutant of banGif: the command does not look the url up before inserting.
banGifUnchecked(invoker, link) ==
    /\ IF ~checkUserAdmin(invoker)
       THEN responses' = <<NotAdmin>> /\ UNCHANGED banned_gifs
       ELSE /\ banned_gifs' = addBannedGif(banned_gifs, link)
            /\ responses' = << <<"Gif banned!">> >>
    /\ UNCHANGED <<users, whitelist, reactions, engineVars>>
    /\ UNCHANGED <<config, presence, ret, auditTask, channels>>

\* /gifmoderation bangif (lines 168-189)
banGif(invoker, link) ==
    /\ IF ~checkUserAdmin(invoker)
       THEN responses' = <<NotAdmin>> /\ UNCHANGED banned_gifs
       ELSE IF checkGifBanned(link)
       THEN responses' = << <<"This gif is already banned!">> >> /\ UNCHANGED banned_gifs
       ELSE /\ banned_gifs' = addBannedGif(banned_gifs, link)
            /\ responses' = << <<"Gif banned!">> >>
    /\ UNCHANGED <<users, whitelist, reactions, engineVars>>
    /\ UNCHANGED <<config, presence, ret, auditTask, channels>>

\* /gifmoderation unbangif (lines 197-214)
unbanGif(invoker, link) ==
    /\ IF ~checkUserAdmin(invoker)
       THEN responses' = <<NotAdmin>> /\ UNCHANGED banned_gifs
       ELSE IF ~checkGifBanned(link)
       THEN responses' = << <<"This gif is not banned!">> >> /\ UNCHANGED banned_gifs
       ELSE /\ banned_gifs' = removeBannedGif(banned_gifs, link)
            /\ responses' = << <<"Gif unbanned!">> >>
    /\ UNCHANGED <<users, whitelist, reactions, engineVars>>
    /\ UNCHANGED <<config, presence, ret, auditTask, channels>>

\* /filter addexception (lines 98-115)
addException(invoker, link) ==
    /\ IF ~checkUserAdmin(invoker)
       THEN responses' = <<NotAdmin>> /\ UNCHANGED whitelist
       ELSE IF InList(link, whitelist)
       THEN responses' = << <<"This gif is already whitelisted!">> >> /\ UNCHANGED whitelist
       ELSE /\ whitelist' = addWhitelistedGif(whitelist, link)
            /\ responses' = << <<"Gif whitelisted!">> >>
    /\ UNCHANGED <<users, banned_gifs, reactions, engineVars>>
    /\ UNCHANGED <<config, presence, ret, auditTask, channels>>

\* /filter removeexception (lines 123-140)
removeException(invoker, link) ==
    /\ IF ~checkUserAdmin(invoker)
       THEN responses' = <<NotAdmin>> /\ UNCHANGED whitelist
       ELSE IF ~InList(link, whitelist)
       THEN responses' = << <<"This gif is not whitelisted!">> >> /\ UNCHANGED whitelist
       ELSE /\ whitelist' = removeWhitelistedGif(whitelist, link)
            /\ responses' = << <<"Gif unwhitelisted!">> >>
    /\ UNCHANGED <<users, banned_gifs, reactions, engineVars>>
    /\ UNCHANGED <<config, presence, ret, auditTask, channels>>

\* /reactions addreact (lines 249-265)
addReactionCommand(invoker, user, reaction) ==
    /\ Len(reactions) < MaxReactionRows
    /\ IF ~checkUserAdmin(invoker)
       THEN responses' = <<NotAdmin>> /\ UNCHANGED reactions
       ELSE /\ reactions' = addReaction(reactions, reaction, user)
            /\ responses' = << <<"Added reaction", reaction, user>> >>
    /\ UNCHANGED <<users, banned_gifs, whitelist, engineVars>>
    /\ UNCHANGED <<config, presence, ret, auditTask, channels>>

\* /reactions removereact (lines 274-292)
removeReactionCommand(invoker, user, reaction) ==
    /\ IF ~checkUserAdmin(invoker) /\ invoker # user
       THEN responses' = <<NotAdmin>> /\ UNCHANGED reactions
       ELSE /\ reactions' = removeReaction(reactions, reaction, user)
            /\ responses' = << <<"Removed reaction", reaction, user>> >>
    /\ UNCHANGED <<users, banned_gifs, whitelist, engineVars>>
    /\ UNCHANGED <<config, presence, ret, auditTask, channels>>

\* bool formatted into an f-string.
Str(b) == IF b THEN "True" ELSE "False"

\* /filter togglefilter (lines 147-159)
toggleFilter(invoker) ==
    /\ IF ~checkUserAdmin(invoker)
       THEN responses' = <<NotAdmin>> /\ UNCHANGED config
       ELSE /\ config' = [config EXCEPT !.filterEnabled = ~config.filterEnabled]
            /\ responses' = << <<"Filter toggled! It is now", Str(~config.filterEnabled)>> >>
    /\ UNCHANGED <<storeVars, engineVars, presence, ret, auditTask, channels>>

\* The status types Config.statusType accepts (config.py lines 85-95).
ValidStatusTypes == {"playing", "watching", "listening", "streaming"}

\* str.lower() and str.title() over the status types given to the command.
Lower(type) == IF type = "Watching" THEN "watching" ELSE type
Title(type) ==
    CASE Lower(type) = "watching" -> "Watching"
      [] Lower(type) = "playing" -> "Playing"
      [] Lower(type) = "dancing" -> "Dancing"
      [] OTHER -> type

\* setStatusInternal (lines 665-675): the activity given to
\* bot.change_presence for the stored statusType and status; for a
\* statusType that matches no case no call is made.
setStatusInternal(cfg, shown) ==
    IF Lower(cfg.statusType) \in ValidStatusTypes
    THEN [type |-> Lower(cfg.statusType), name |-> cfg.status]
    ELSE shown

\* Mutant of setStatus: the status text is stored before the type is checked.
setStatusTextFirst(invoker, status, type) ==
    /\ IF ~checkUserAdmin(invoker)
       THEN responses' = <<NotAdmin>> /\ UNCHANGED configVars
       ELSE IF Lower(type) \notin ValidStatusTypes
       THEN /\ responses' = <<>>
            /\ config' = [config EXCEPT !.status = status]
            /\ UNCHANGED presence
       ELSE /\ config' = [config EXCEPT !.statusType = type, !.status = status]
            /\ presence' = setStatusInternal(config', presence)
            /\ responses' = << <<"Status set to", Title(type), status>> >>
    /\ UNCHANGED <<storeVars, engineVars, ret, auditTask, channels>>

\* /setstatus (lines 224-240).  The statusType setter compares the lowered
\* value and raises InvalidStatusType before anything is written; the
\* exception leaves the handler, which then answers nothing.  An accepted
\* value is stored as given.
setStatus(invoker, status, type) ==
    /\ IF ~checkUserAdmin(invoker)
       THEN responses' = <<NotAdmin>> /\ UNCHANGED configVars
       ELSE IF Lower(type) \notin ValidStatusTypes
       THEN responses' = <<>> /\ UNCHANGED configVars
       ELSE /\ config' = [config EXCEPT !.statusType = type, !.status = status]
            /\ presence' = setStatusInternal(config', presence)
            /\ responses' = << <<"Status set to", Title(type), status>> >>
    /\ UNCHANGED <<storeVars, engineVars, ret, auditTask, channels>>

\* ------------------------------------------------------------------ on_ready

\* The gateway delivers ready: on_ready (lines 634-637) calls
\* setStatusInternal and suspends in bot.change_presence.
on_ready ==
    /\ ready = "connecting"
    /\ ready' = "presence"
    /\ presence' = setStatusInternal(config, presence)
    /\ UNCHANGED <<storeVars, msgs, task, platformDeleted, deleteEvents, reactionEvents>>
    /\ UNCHANGED <<config, responses, ret, auditTask, channels>>

\* Mutant of OnReadyMembers: the row of every member is written anew.
OnReadyMembersReplaces ==
    /\ ready = "presence"
    /\ ready' = "done"
    /\ LET members == UNION {MembersOf[c] : c \in DOMAIN channels}
       IN  users' = [uid \in DOMAIN users \cup members |->
                       IF uid \in members THEN NewUser(Name(uid)) ELSE users[uid]]
    /\ UNCHANGED <<tableVars, msgs, task, platformDeleted, deleteEvents, reactionEvents>>
    /\ UNCHANGED commandVars

\* change_presence returns: every member of every guild without a row gets
\* one (lines 642-648).
OnReadyMembers ==
    /\ ready = "presence"
    /\ ready' = "done"
    /\ LET members == UNION {MembersOf[c] : c \in DOMAIN channels}
       IN  users' = [uid \in DOMAIN users \cup members |->
                       IF uid \in DOMAIN users THEN users[uid]
                       ELSE NewUser(Name(uid))]
    /\ UNCHANGED <<tableVars, msgs, task, platformDeleted, deleteEvents, reactionEvents>>
    /\ UNCHANGED commandVars

\* ----------------------------------------------------------- audit commands
\* audit and auditUsernames are coroutines that suspend in ctx.respond and in
\* channel.history; auditTask is the one in progress: the command, its invoker,
\* where it is suspended, the channel index k it has come to, its local
\* messageCount (channel -> user -> count), the channels whose history it
\* asked for, what it answered, and the number of completed count audits.

NotOwner == <<"You are not the bot owner!">>
AuditStarting == <<"Auditing message count for all servers. This may take a while.">>
AuditComplete == <<"Audit complete!">>
UsernamesStarting ==
    <<"Auditing usernames for all users in all servers. This may take a while.">>

Audit(pc, command, invoker, k, messageCount, fetched, answers, runs) ==
    [pc |-> pc, command |-> command, invoker |-> invoker, k |-> k,
     messageCount |-> messageCount, fetched |-> fetched,
     responses |-> answers, runs |-> runs]

NoAudit == Audit("none", "none", "none", 0, <<>>, <<>>, <<>>, 0)

\* Mutant of IsOwner: administrators pass the owner check too.
IsOwnerOrAdmin(uid) == uid \in owonerId \/ uid \in Administrators

\* ctx.author.id in config.owonerId (lines 422, 495)
IsOwner(uid) == uid \in owonerId

\* Mutant of MemberCounts: the members are not entered, a channel's counts
\* start empty.
MemberCountsNone(c) == <<>>

\* Lines 442-443: every member of the channel's guild starts at 0.
MemberCounts(c) == [u \in MembersOf[c] |-> 0]

\* Lines 448-453: one more for the author of each message of the history h.
RECURSIVE CountHistory(_, _)
CountHistory(cnt, h) ==
    IF h = <<>> THEN cnt
    ELSE LET a == Head(h)
         IN  CountHistory(
                 IF a \in DOMAIN cnt
                 THEN [cnt EXCEPT ![a] = @ + 1]
                 ELSE cnt @@ (a :> 1),
                 Tail(h))

\* Mutant of CountOf: a channel's count replaces the count so far.
CountOfOverwrites(mc, user, k) ==
    LET having == {j \in 1..k : /\ ChannelOrder[j] \in DOMAIN mc
                                /\ user \in DOMAIN mc[ChannelOrder[j]]}
    IN  IF having = {} THEN 0
        ELSE mc[ChannelOrder[CHOOSE j \in having : \A i \in having : i <= j]][user]

\* Lines 461-469: the global count of user over the channels of messageCount.
RECURSIVE CountOf(_, _, _)
CountOf(mc, user, k) ==
    IF k = 0 THEN 0
    ELSE CountOf(mc, user, k - 1)
         + ( IF ChannelOrder[k] \in DOMAIN mc /\ user \in DOMAIN mc[ChannelOrder[k]]
             THEN mc[ChannelOrder[k]][user]
             ELSE 0 )

Totals(mc) ==
    [user \in UNION {DOMAIN mc[c] : c \in DOMAIN mc} |->
        CountOf(mc, user, Len(ChannelOrder))]

\* bot.get_user(user).name if bot.get_user(user) is not None else "deleted user"
AuditName(user) == IF user \in ResolvableIds THEN Name(user) ELSE "deleted user"

\* Mutant of WriteCount: a stored count above the total is kept.
WriteCountKeepsLarger(tbl, user, value) ==
    IF user \in DOMAIN tbl /\ tbl[user].messages_sent > value
    THEN tbl
    ELSE setMessagesSent(
             IF user \in DOMAIN tbl THEN tbl ELSE addUser(tbl, user, AuditName(user)),
             user, value)

\* Lines 474-477 for one user: the row is added when missing, then set.
WriteCount(tbl, user, value) ==
    setMessagesSent(
        IF user \in DOMAIN tbl THEN tbl ELSE addUser(tbl, user, AuditName(user)),
        user, value)

\* Lines 472-477: the write phase over the table tbl.
WriteCounts(tbl, totals) ==
    [user \in DOMAIN tbl \cup DOMAIN totals |->
        IF user \in DOMAIN totals
        THEN WriteCount(tbl, user, totals[user])[user]
        ELSE tbl[user]]

\* Lines 432-448 from the channel of index k on: the member counts of each
\* channel are set up, a category channel is passed over, and the coroutine
\* suspends in the history of the first other channel; past the last
\* channel it is ready to write.
RECURSIVE WalkChannels(_, _)
WalkChannels(a, k) ==
    IF k > Len(ChannelOrder)
    THEN [a EXCEPT !.pc = "write", !.k = k]
    ELSE LET c == ChannelOrder[k]
             a1 == [a EXCEPT !.messageCount = @ @@ (c :> MemberCounts(c)), !.k = k]
         IN  IF channels[c].category
             THEN WalkChannels(a1, k + 1)
             ELSE [a1 EXCEPT !.pc = "history", !.fetched = Append(@, c)]

\* The coroutine `a` goes on from a resumption: either it is suspended in
\* the next history, or it has walked every channel, writes the counts
\* (lines 461-477) and answers "Audit complete!" (line 479).
AuditGoesOn(a) ==
    IF a.pc = "write"
    THEN /\ users' = WriteCounts(users, Totals(a.messageCount))
         /\ auditTask' = [a EXCEPT !.pc = "done",
                               !.responses = Append(@, AuditComplete),
                               !.runs = @ + 1]
    ELSE /\ auditTask' = a
         /\ UNCHANGED users

AuditFrame ==
    /\ UNCHANGED <<tableVars, engineVars>>
    /\ UNCHANGED <<config, presence, responses, ret, channels>>

\* /audit messages is invoked (lines 421-426): refused for whoever is not an
\* owner, else the coroutine suspends in the starting answer.
audit(invoker) ==
    /\ auditTask.pc \in {"none", "done", "refused"}
    /\ auditTask.runs < MaxAuditRuns
    /\ auditTask' = IF ~IsOwner(invoker)
                THEN Audit("refused", "messages", invoker, 0, <<>>, <<>>,
                           <<NotOwner>>, auditTask.runs)
                ELSE Audit("ack", "messages", invoker, 0, <<>>, <<>>,
                           <<AuditStarting>>, auditTask.runs)
    /\ UNCHANGED users
    /\ AuditFrame

\* The starting answer of /audit messages is delivered: the walk begins.
AuditAcked ==
    /\ auditTask.pc = "ack"
    /\ auditTask.command = "messages"
    /\ AuditGoesOn(WalkChannels(auditTask, 1))
    /\ AuditFrame

\* Mutant of AuditHistory: the messages of a history that raises are counted.
AuditHistoryCountsDenied ==
    /\ auditTask.pc = "history"
    /\ LET c == ChannelOrder[auditTask.k]
           counted == [auditTask EXCEPT !.messageCount[c] =
                          CountHistory(@, channels[c].history)]
       IN  AuditGoesOn(WalkChannels(counted, auditTask.k + 1))
    /\ AuditFrame

\* Mutant of AuditHistory: a history that raises ends the coroutine.
AuditHistoryAborts ==
    /\ auditTask.pc = "history"
    /\ LET c == ChannelOrder[auditTask.k]
           counted == [auditTask EXCEPT !.messageCount[c] =
                          CountHistory(@, channels[c].history)]
       IN  IF channels[c].access = "ok"
           THEN AuditGoesOn(WalkChannels(counted, auditTask.k + 1))
           ELSE auditTask' = [auditTask EXCEPT !.pc = "failed"] /\ UNCHANGED users
    /\ AuditFrame

\* channel.history of the channel the coroutine waits for yields its
\* messages, or raises Forbidden or NotFound, as the platform has it
\* (lines 447-459); the walk goes on with the next channel.
AuditHistory ==
    /\ auditTask.pc = "history"
    /\ LET c == ChannelOrder[auditTask.k]
           counted == IF channels[c].access = "ok"
                      THEN [auditTask EXCEPT !.messageCount[c] =
                                CountHistory(@, channels[c].history)]
                      ELSE auditTask
       IN  AuditGoesOn(WalkChannels(counted, auditTask.k + 1))
    /\ AuditFrame

\* /audit usernames is invoked (lines 494-499).
auditUsernames(invoker) ==
    /\ auditTask.pc \in {"none", "done", "refused"}
    /\ auditTask' = IF ~IsOwner(invoker)
                THEN Audit("refused", "usernames", invoker, 0, <<>>, <<>>,
                           <<NotOwner>>, auditTask.runs)
                ELSE Audit("ack", "usernames", invoker, 0, <<>>, <<>>,
                           <<UsernamesStarting>>, auditTask.runs)
    /\ UNCHANGED users
    /\ AuditFrame

\* Mutant of SyncUsername: a row the platform does not resolve is renamed.
SyncUsernameRenamesGone(tbl, uid) ==
    setUsername(tbl, uid, IF uid \in ResolvableIds THEN Name(uid) ELSE "deleted user")

\* Lines 502-505 for one row.
SyncUsername(tbl, uid) ==
    IF uid \in ResolvableIds /\ tbl[uid].username # Name(uid)
    THEN setUsername(tbl, uid, Name(uid))
    ELSE tbl

\* The starting answer of /audit usernames is delivered: every row is
\* compared with the platform's name (lines 502-505) and the handler
\* returns.
AuditUsernamesAcked ==
    /\ auditTask.pc = "ack"
    /\ auditTask.command = "usernames"
    /\ users' = [uid \in DOMAIN users |-> SyncUsername(users, uid)[uid]]
    /\ auditTask' = [auditTask EXCEPT !.pc = "done"]
    /\ AuditFrame

\* ------------------------------------------- direct calls of the Database
\* A caller other than the commands (which look a url up first) calls a
\* method of Database; ret keeps what the call gave back.

Call(op, arg, outcome) ==
    [op |-> op, arg |-> arg, kind |-> outcome.kind, value |-> outcome.value]

\* The user ids the methods are called with.
StoreIds == {"alice", "bob"}

\* database.addBannedGif(bannedBy, gifUrl, reason): INSERT and commit; the
\* method returns None.  banned_gifs.url carries no UNIQUE constraint.
CallAddBannedGif(gifUrl) ==
    /\ Len(banned_gifs) < MaxRows
    /\ banned_gifs' = addBannedGif(banned_gifs, gifUrl)
    /\ ret' = Call("addBannedGif", gifUrl, Returns("None"))
    /\ UNCHANGED <<users, whitelist, reactions, engineVars>>
    /\ UNCHANGED <<config, presence, responses, auditTask, channels>>

\* database.addWhitelistedGif(addedBy, gifUrl)
CallAddWhitelistedGif(gifUrl) ==
    /\ Len(whitelist) < MaxRows
    /\ whitelist' = addWhitelistedGif(whitelist, gifUrl)
    /\ ret' = Call("addWhitelistedGif", gifUrl, Returns("None"))
    /\ UNCHANGED <<users, banned_gifs, reactions, engineVars>>
    /\ UNCHANGED <<config, presence, responses, auditTask, channels>>

\* database.removeBannedGif(gifUrl)
CallRemoveBannedGif(gifUrl) ==
    /\ banned_gifs' = removeBannedGif(banned_gifs, gifUrl)
    /\ ret' = Call("removeBannedGif", gifUrl, Returns("None"))
    /\ UNCHANGED <<users, whitelist, reactions, engineVars>>
    /\ UNCHANGED <<config, presence, responses, auditTask, channels>>

\* database.removeWhitelistedGif(gifUrl)
CallRemoveWhitelistedGif(gifUrl) ==
    /\ whitelist' = removeWhitelistedGif(whitelist, gifUrl)
    /\ ret' = Call("removeWhitelistedGif", gifUrl, Returns("None"))
    /\ UNCHANGED <<users, banned_gifs, reactions, engineVars>>
    /\ UNCHANGED <<config, presence, responses, auditTask, channels>>

\* database.addReaction(reaction, addedBy, appliesTo)
CallAddReaction(reaction, appliesTo) ==
    /\ Len(reactions) < MaxRows
    /\ reactions' = addReaction(reactions, reaction, appliesTo)
    /\ ret' = Call("addReaction", appliesTo, Returns("None"))
    /\ UNCHANGED <<users, banned_gifs, whitelist, engineVars>>
    /\ UNCHANGED <<config, presence, responses, auditTask, channels>>

\* database.removeReaction(reaction, appliesTo)
CallRemoveReaction(reaction, appliesTo) ==
    /\ reactions' = removeReaction(reactions, reaction, appliesTo)
    /\ ret' = Call("removeReaction", appliesTo, Returns("None"))
    /\ UNCHANGED <<users, banned_gifs, whitelist, engineVars>>
    /\ UNCHANGED <<config, presence, responses, auditTask, channels>>

\* database.addUser(userId, username): users.id is the primary key, the
\* INSERT of an id that has a row raises sqlite3.IntegrityError.
CallAddUser(userId) ==
    /\ IF checkUserExists(userId)
       THEN /\ ret' = Call("addUser", userId, Raises("IntegrityError"))
            /\ UNCHANGED users
       ELSE /\ users' = addUser(users, userId, Name(userId))
            /\ ret' = Call("addUser", userId, Returns("None"))
    /\ UNCHANGED <<tableVars, engineVars>>
    /\ UNCHANGED <<config, presence, responses, auditTask, channels>>

\* A method that only reads: nothing changes but ret.
ReadCall(op, arg, outcome) ==
    /\ ret' = Call(op, arg, outcome)
    /\ UNCHANGED <<storeVars, engineVars>>
    /\ UNCHANGED <<config, presence, responses, auditTask, channels>>

CallGetUserReactions(user) ==
    ReadCall("getUserReactions", user, Returns(getUserReactions(user)))

CallGetUserName(uid) == ReadCall("getUserName", uid, getUserName(uid))

CallGetMessagesSent(uid) == ReadCall("getMessagesSent", uid, getMessagesSent(uid))

CallGetMessagesSentRank(uid) ==
    ReadCall("getMessagesSentRank", uid, getMessagesSentRank(uid))

CallGetMessagesDeleted(uid) ==
    ReadCall("getMessagesDeleted", uid, getMessagesDeleted(uid))

CallGetMessagesDeletedRank(uid) ==
    ReadCall("getMessagesDeletedRank", uid, getMessagesDeletedRank(uid))

\* ------------------------------------------------------------ specification

\* The users table the bot starts with: the database file outlives the
\* process, and apply_filter is set in it by hand (no command writes it).
InitialUsers ==
    { <<>>,
      "alice" :> NewUser("alice"),
      "alice" :> [NewUser("alice") EXCEPT !.apply_filter = TRUE, !.messages_sent = 1] }

\* Table contents the commands can have left in the database file.
InitialBanned == { <<>>, << <<"a">> >> }
InitialWhitelist == { <<>>, << <<"t", "a">>, <<"m", "a">> >> }
InitialReactions ==
    { <<>>,
      << [reaction |-> "r1", applies_to |-> "bob"],
         [reaction |-> "r1", applies_to |-> "bot"],
         [reaction |-> "r2", applies_to |-> "bob"] >> }

EngineIdle ==
    /\ msgs = <<>>
    /\ task = [m \in MsgIds |-> NoTask]
    /\ platformDeleted = {}
    /\ deleteEvents = {}
    /\ reactionEvents = {}
    /\ ready = "done"

\* No audit was invoked; the guild channels are left out where no audit runs.
AuditIdle ==
    /\ auditTask = NoAudit
    /\ channels = <<>>

\* A channel: whether it is a CategoryChannel, the authors of the messages
\* of its history, and what asking for the history does.
Channel(category, history, access) ==
    [category |-> category, history |-> history, access |-> access]

HistoryOutcomes == {"ok", "Forbidden", "NotFound"}

\* The guilds the audits run over: bob wrote three messages in c1, bob and
\* alice (no member of g1) one each in c2, alice and a deleted user one each
\* in c3; each history is readable or not.
Worlds ==
    { [c \in ChannelIds |->
          CASE c = "c1"  -> Channel(FALSE, <<"bob", "bob", "bob">>, acc[1])
            [] c = "cat" -> Channel(TRUE, <<>>, "ok")
            [] c = "c2"  -> Channel(FALSE, <<"bob", "alice">>, acc[2])
            [] c = "c3"  -> Channel(FALSE, <<"alice", "gone">>, acc[3])]
      : acc \in [1..3 -> HistoryOutcomes] }

\* The users table the audits start on: empty, or rows with an outdated
\* name and counts of their own, one of them of a user the platform no
\* longer resolves and that is in no guild.
AuditUsers ==
    { <<>>,
      ("alice" :> [NewUser("al") EXCEPT !.messages_sent = 5])
          @@ ("zed" :> [NewUser("zed") EXCEPT !.messages_sent = 2]) }


\* config.json as quickstart writes it.
DefaultConfig ==
    [status |-> "with the default config", statusType |-> "playing",
     filterEnabled |-> FALSE]

NoPresence == [type |-> "none", name |-> "none"]
NoCall == [op |-> "none", arg |-> "none", kind |-> "none", value |-> "none"]

\* No command has run, no Database method was called from outside.
CommandsIdle ==
    /\ config = DefaultConfig
    /\ presence = NoPresence
    /\ responses = <<>>
    /\ ret = NoCall

\* The bot starts in its guilds, no command invoked yet.
AuditInit ==
    /\ users \in AuditUsers
    /\ banned_gifs = <<>>
    /\ whitelist = <<>>
    /\ reactions = <<>>
    /\ EngineIdle
    /\ CommandsIdle
    /\ auditTask = NoAudit
    /\ channels \in Worlds

\* The bot starts on a fresh database, but for the users table.
Init ==
    /\ users \in InitialUsers
    /\ banned_gifs = <<>>
    /\ whitelist = <<>>
    /\ reactions = <<>>
    /\ EngineIdle
    /\ CommandsIdle
    /\ AuditIdle

\* The bot starts on a database earlier commands have filled.
EngineInit ==
    /\ users \in InitialUsers
    /\ banned_gifs \in InitialBanned
    /\ whitelist \in InitialWhitelist
    /\ reactions \in InitialReactions
    /\ EngineIdle
    /\ CommandsIdle
    /\ AuditIdle

\* The steps of the coroutines and of the platform.
HandlerNext ==
    \/ \E m \in MsgIds : OnMessage(m)
    \/ \E m \in MsgIds : DeleteOk(m)
    \/ \E m \in MsgIds : DeleteNotFound(m)
    \/ \E m \in MsgIds : DeleteForbidden(m)
    \/ \E m \in MsgIds : SendOk(m)
    \/ \E m \in MsgIds : SendForbidden(m)
    \/ \E m \in MsgIds : ReactOk(m)
    \/ \E m \in MsgIds, exc \in {"Forbidden", "NotFound"} : ReactFails(m, exc)
    \/ \E m \in MsgIds : PlatformDelete(m)
    \/ \E m \in MsgIds : OnMessageDelete(m)
    \/ on_reaction_add(BotId)

CommandNext ==
    \/ \E invoker \in Invokers, link \in Urls : banGif(invoker, link)
    \/ \E invoker \in Invokers, link \in Urls : unbanGif(invoker, link)
    \/ \E invoker \in Invokers, link \in ExceptionUrls : addException(invoker, link)
    \/ \E invoker \in Invokers, link \in ExceptionUrls : removeException(invoker, link)
    \/ \E invoker \in Invokers, user \in ReactionTargets, reaction \in ReactionTokens :
           addReactionCommand(invoker, user, reaction)
    \/ \E invoker \in Invokers, user \in ReactionTargets, reaction \in ReactionTokens :
           removeReactionCommand(invoker, user, reaction)

\* The message pipeline over every kind of message, on a filled database.
EngineNext ==
    \/ \E m \in MsgIds, message \in Messages : PostMessage(m, message)
    \/ HandlerNext

EngineSpec == EngineInit /\ [][EngineNext]_vars

\* The whole bot: commands interleaved with the pipeline of one message.
Next ==
    \/ \E message \in SampleMessages : PostMessage(1, message)
    \/ HandlerNext
    \/ CommandNext

Spec == Init /\ [][Next]_vars

\* The commands that write config.json.
ConfigNext ==
    \/ \E invoker \in Invokers : toggleFilter(invoker)
    \/ \E invoker \in Invokers, status \in Statuses, type \in StatusTypes :
           setStatus(invoker, status, type)

\* The commands alone, no message being handled.
CommandSpec == Init /\ [][CommandNext \/ ConfigNext]_vars

\* The two audit commands and the resumptions of their coroutines.
AuditNext ==
    \/ \E invoker \in Invokers : audit(invoker)
    \/ AuditAcked
    \/ AuditHistory
    \/ \E invoker \in Invokers : auditUsernames(invoker)
    \/ AuditUsernamesAcked

AuditSpec == AuditInit /\ [][AuditNext]_vars

\* The messages posted while an audit runs: one with the banned url a in it,
\* and a plain one.
LiveMessages ==
    { Message("bob", <<"t", "a">>, <<NoReference, FALSE>>),
      Message("bob", <<"x">>, <<NoReference, FALSE>>) }

\* The bot connects on a database that holds a banned url and a reaction
\* for bob, and no users row; the history of c2, the channel the messages
\* are posted in, is readable or not.
LiveInit ==
    /\ users = <<>>
    /\ banned_gifs = << <<"a">> >>
    /\ whitelist = <<>>
    /\ reactions = << [reaction |-> "r1", applies_to |-> "bob"] >>
    /\ msgs = <<>>
    /\ task = [m \in MsgIds |-> NoTask]
    /\ platformDeleted = {}
    /\ deleteEvents = {}
    /\ reactionEvents = {}
    /\ ready = "connecting"
    /\ CommandsIdle
    /\ auditTask = NoAudit
    /\ channels \in { w \in Worlds :
                         /\ w["c1"].access = "ok"
                         /\ w["c3"].access = "ok"
                         /\ w["c2"].access \in {"ok", "Forbidden"} }

\* The event handlers and the audits side by side; alice reacts to messages.
LiveNext ==
    \/ on_ready
    \/ OnReadyMembers
    \/ \E m \in MsgIds, message \in LiveMessages : PostMessage(m, message)
    \/ HandlerNext
    \/ \E m \in MsgIds : PlatformReact("alice", m)
    \/ on_reaction_add("alice")
    \/ AuditNext

LiveSpec == LiveInit /\ [][LiveNext]_vars

\* One guild world, every history readable.
SystemInit ==
    /\ LiveInit
    /\ \A c \in ChannelIds : channels[c].access = "ok"

\* The whole bot: handlers, audits and commands side by side, the commands
\* invoked by an administrator and by a user without rights, the audits by
\* the owner.
SystemNext ==
    \/ on_ready
    \/ OnReadyMembers
    \/ \E m \in MsgIds : PostMessage(m, Message("bob", <<"t", "a">>, <<NoReference, FALSE>>))
    \/ HandlerNext
    \/ \E invoker \in owonerId : audit(invoker)
    \/ AuditAcked
    \/ AuditHistory
    \/ \E invoker \in owonerId : auditUsernames(invoker)
    \/ AuditUsernamesAcked
    \/ \E invoker \in {"admin", "bob"}, link \in { <<"a">> } : banGif(invoker, link)
    \/ \E invoker \in {"admin", "bob"}, link \in { <<"a">> } : unbanGif(invoker, link)
    \/ \E invoker \in {"admin", "bob"}, link \in ExceptionUrls : addException(invoker, link)
    \/ \E invoker \in {"admin", "bob"}, link \in ExceptionUrls : removeException(invoker, link)
    \/ \E invoker \in {"admin", "bob"}, user \in ReactionTargets, reaction \in {"r1"} :
           addReactionCommand(invoker, user, reaction)
    \/ \E invoker \in {"admin", "bob"}, user \in ReactionTargets, reaction \in {"r1"} :
           removeReactionCommand(invoker, user, reaction)

SystemSpec == SystemInit /\ [][SystemNext]_vars

\* The Database methods, called directly on a database earlier calls filled.
StoreNext ==
    \/ \E gifUrl \in Urls : CallAddBannedGif(gifUrl)
    \/ \E gifUrl \in ExceptionUrls : CallAddWhitelistedGif(gifUrl)
    \/ \E gifUrl \in Urls : CallRemoveBannedGif(gifUrl)
    \/ \E gifUrl \in ExceptionUrls : CallRemoveWhitelistedGif(gifUrl)
    \/ \E appliesTo \in StoreIds : CallAddReaction("r1", appliesTo)
    \/ \E appliesTo \in StoreIds : CallRemoveReaction("r1", appliesTo)
    \/ \E userId \in StoreIds : CallAddUser(userId)
    \/ \E user \in StoreIds : CallGetUserReactions(user)
    \/ \E uid \in StoreIds : CallGetUserName(uid)
    \/ \E uid \in StoreIds : CallGetMessagesSent(uid)
    \/ \E uid \in StoreIds : CallGetMessagesSentRank(uid)
    \/ \E uid \in StoreIds : CallGetMessagesDeleted(uid)
    \/ \E uid \in StoreIds : CallGetMessagesDeletedRank(uid)

StoreSpec == EngineInit /\ [][StoreNext]_vars

\* ------------------------------------------------------------- properties

\* The trace entries of message m's handler that are the call `call`.
Entries(m, call) == {i \in 1..Len(task[m].log) : task[m].log[i].call = call}

\* The handler of m has returned or died of an exception.
Ended(m) == task[m].pc \in {"done", "failed"}

\* The handler of m issued deleteMessage / sent a notice / tried a reaction.
IssuedDelete(m) == Entries(m, "delete") # {}
SentNotice(m) == Entries(m, "send") # {}
TriedReaction(m) == Entries(m, "add_reaction") # {}

\* The reactions the handler of m tried to attach, in order.
Attempts(m) ==
    LET lg == SelectSeq(task[m].log, LAMBDA e : e.call = "add_reaction")
    IN  [i \in 1..Len(lg) |-> lg[i].arg]

\* Message m is a reply the reply-chain check applies to: its parent is
\* resolved, it is no system message, the parent's author has opted in to
\* filtering and the author is a user without admin rights.
ReplyToFiltered(m) ==
    /\ msgs[m].reference.kind = "resolved"
    /\ ~msgs[m].system
    /\ msgs[m].reference.author \in filteredUsers(users)
    /\ ~checkUserAdmin(msgs[m].author)
    /\ msgs[m].author # BotId

\* The body contains a configured classifier as a substring.
HasClassifier(body) ==
    \E i \in 1..Len(gifClassifiers) : IsSubstring(gifClassifiers[i], body)

\* C1: every message whose author is neither the bot nor an owner and whose
\* body contains a banned url gets a deleteMessage and a rejection notice:
\* once its handler has ended, both calls are in its trace.
C1_BannedMessageDeletedAndNotified ==
    \A m \in DOMAIN msgs :
        ( /\ Ended(m)
          /\ msgs[m].author # BotId
          /\ msgs[m].author \notin owonerId
          /\ checkMessageBannedGifs(msgs[m].content) )
        => ( /\ \E i \in Entries(m, "delete") : task[m].log[i].target = m
             /\ SentNotice(m) )

\* C2: the pipeline short-circuits: at most one deleteMessage and at most
\* one notice per message, and no reply-chain check once the banned-media
\* check has deleted the message.
C2_ShortCircuit ==
    \A m \in DOMAIN msgs :
        /\ Cardinality(Entries(m, "delete")) <= 1
        /\ Cardinality(Entries(m, "send")) <= 1
        /\ \A i \in Entries(m, "deleted"), j \in Entries(m, "check") :
               ~(task[m].log[i].step = "banned" /\ i < j)

\* C3: after the engine has deleted a message, no attachReaction is made
\* for it.
C3_NoReactionAfterDelete ==
    \A m \in DOMAIN msgs :
        \A i \in Entries(m, "deleted"), j \in Entries(m, "add_reaction") :
            ~(i < j)

\* C4: a banned-url message that is already gone from the platform
\* (deleteMessage reports the missing target) is handled without the handler
\* raising.
C4_ReplayDoesNotRaise ==
    \A m \in DOMAIN msgs :
        \A i \in Entries(m, "raise") :
            ~(task[m].log[i].step = "banned" /\ task[m].log[i].arg = "NotFound")

\* C5: a reply by a non-admin user to a message of a filter-opted-in user,
\* with a classifier in its body and a body that is no whitelisted url,
\* gets a deleteMessage and a notice once its handler has ended, and no
\* deleteMessage targets the parent message.
C5_ReplyChainScenario ==
    \A m \in DOMAIN msgs :
        /\ ( /\ Ended(m)
             /\ ReplyToFiltered(m)
             /\ HasClassifier(msgs[m].content)
             /\ ~InList(msgs[m].content, whitelist) )
           => ( /\ \E i \in Entries(m, "delete") : task[m].log[i].target = m
                /\ SentNotice(m) )
        /\ \A i \in Entries(m, "delete") :
               task[m].log[i].target # msgs[m].reference.message_id

\* The reply-chain check of m has been evaluated (line 549 was reached).
ReplyChecked(m) == Entries(m, "check") # {}

\* The reply-chain check issued a deleteMessage for m.
ReplyCheckDeleted(m) ==
    \E i \in Entries(m, "delete") : task[m].log[i].step = "reply"

\* C6: a message whose body is exactly a whitelisted url is never deleted by
\* the reply-chain check; a body that is not itself whitelisted (it may
\* contain a whitelisted url as a proper substring) and contains a
\* classifier is deleted by the check when it replies to a filtered user.
C6_WhitelistExemption ==
    \A m \in DOMAIN msgs :
        /\ InList(msgs[m].content, whitelist) => ~ReplyCheckDeleted(m)
        /\ ( /\ ReplyChecked(m)
             /\ ReplyToFiltered(m)
             /\ HasClassifier(msgs[m].content)
             /\ ~InList(msgs[m].content, whitelist) )
           => ReplyCheckDeleted(m)

\* A reply whose body is exactly a whitelisted url with a classifier, sent by
\* a non-admin to a filtered user, went through the check undeleted.
C6_Witness ==
    \E m \in DOMAIN msgs :
        /\ InList(msgs[m].content, whitelist)
        /\ HasClassifier(msgs[m].content)
        /\ ReplyToFiltered(m)
        /\ ReplyChecked(m)
        /\ task[m].pc = "done"
        /\ ~IssuedDelete(m)

\* C8: for a message of the bot itself the engine issues no deleteMessage,
\* no notice and no attachReaction.
C8_SelfExclusion ==
    \A m \in DOMAIN msgs :
        msgs[m].author = BotId
        => ~IssuedDelete(m) /\ ~SentNotice(m) /\ ~TriedReaction(m)

\* The bot's own message, with a banned url in it and a reaction subscribed
\* for the bot, has been handled.
C8_Witness ==
    \E m \in DOMAIN msgs :
        /\ msgs[m].author = BotId
        /\ checkMessageBannedGifs(msgs[m].content)
        /\ getUserReactions(BotId) # <<>>
        /\ task[m].pc = "done"

\* The handler of m starts in this step.
Starts(m) == m \in DOMAIN msgs /\ task[m].pc = "queued" /\ task'[m].pc # "queued"

\* C7: the step that starts a handler leaves the author with a row whose
\* messages_sent is one more than before (one, when the row is new), also
\* for the bot's own messages, and changes no other row; no other step of
\* the pipeline changes a messages_sent.
C7_IdentitySync ==
    [][ /\ \A m \in MsgIds :
              Starts(m) =>
                  LET a == msgs[m].author
                  IN  /\ DOMAIN users' = DOMAIN users \cup {a}
                      /\ users'[a].messages_sent =
                             (IF a \in DOMAIN users THEN users[a].messages_sent ELSE 0) + 1
                      /\ \A u \in DOMAIN users \ {a} : users'[u] = users[u]
        /\ (\A m \in MsgIds : ~Starts(m)) =>
              \A u \in DOMAIN users :
                  /\ u \in DOMAIN users'
                  /\ users'[u].messages_sent = users[u].messages_sent
      ]_vars

\* The bot's own message has been handled: the bot's row was created and
\* counts it.
C7_Witness ==
    \E m \in DOMAIN msgs :
        /\ msgs[m].author = BotId
        /\ task[m].pc = "done"
        /\ BotId \in DOMAIN users
        /\ users[BotId].messages_sent = 1

\* C9: for a message the engine issues no deleteMessage for, once the handler
\* has ended a reaction was tried for every subscription of the author, in
\* order, and no failed attempt (Forbidden, NotFound) raised out of the loop.
C9_EverySubscriptionTried ==
    \A m \in DOMAIN msgs :
        ( /\ Ended(m)
          /\ msgs[m].author # BotId
          /\ ~IssuedDelete(m) )
        => ( /\ Attempts(m) = getUserReactions(msgs[m].author)
             /\ \A i \in Entries(m, "raise") : task[m].log[i].step # "react" )

\* C10: a step that adds url u to banned_gifs leaves u banned, and u stays
\* banned over every step that is not an unban of u.
C10_BannedStaysBanned ==
    [][ \A u \in Urls :
            /\ banned_gifs' = addBannedGif(banned_gifs, u)
               => checkGifBanned(u)' /\ checkMessageBannedGifs(u)'
            /\ ( /\ checkGifBanned(u)
                 /\ ~(\E invoker \in Invokers : unbanGif(invoker, u)) )
               => checkGifBanned(u)' /\ checkMessageBannedGifs(u)'
      ]_vars

\* Url a is banned while the other url is not, an exception and a
\* subscription are stored, and a message was handled with a deletion.
C10_Witness ==
    /\ checkGifBanned(<<"a">>)
    /\ ~checkGifBanned(<<"t", "a">>)
    /\ whitelist # <<>>
    /\ reactions # <<>>
    /\ \E m \in DOMAIN msgs : Ended(m) /\ IssuedDelete(m)

\* C11: a direct addBannedGif of a url that is already banned, and a direct
\* addWhitelistedGif of a url that is already whitelisted, raises a conflict
\* and leaves the table as it was.
C11_DuplicateAddConflicts ==
    [][ /\ \A u \in Urls :
              (checkGifBanned(u) /\ CallAddBannedGif(u))
              => (banned_gifs' = banned_gifs /\ ret'.kind = "raise")
        /\ \A u \in ExceptionUrls :
              (InList(u, whitelist) /\ CallAddWhitelistedGif(u))
              => (whitelist' = whitelist /\ ret'.kind = "raise")
      ]_vars

\* No url occurs in two rows of the table tbl.
UrlsUnique(tbl) ==
    \A i, j \in 1..Len(tbl) : tbl[i] = tbl[j] => i = j

\* C12: in every state the ban, unban, add-exception and remove-exception
\* commands can reach, no url is in two banned_gifs rows and no url is in
\* two whitelist rows.
C12_UrlsUniqueUnderCommands ==
    UrlsUnique(banned_gifs) /\ UrlsUnique(whitelist)

\* Both urls are banned, an exception is stored, and the last command was a
\* ban of a url that was banned already.
C12_Witness ==
    /\ Len(banned_gifs) = 2
    /\ whitelist # <<>>
    /\ responses = << <<"This gif is already banned!">> >>

\* The reactions table holds a row that applies to uid.
HasSubscription(uid) ==
    \E i \in 1..Len(reactions) : reactions[i].applies_to = uid

\* C13 as stated: getUserReactions gives the empty list for every user id
\* that has no users row (and for every user without subscriptions), and a
\* handler that got the empty list attaches no reaction.
C13_EmptyForUnknownId ==
    /\ \A uid \in UserIds :
          (~checkUserExists(uid) \/ ~HasSubscription(uid))
          => getUserReactions(uid) = <<>>
    /\ \A m \in DOMAIN msgs :
          (task[m].pc = "done" /\ task[m].userReactions = <<>>)
          => ~TriedReaction(m)

\* C13, amended: getUserReactions gives the empty list exactly for the user
\* ids no reactions row applies to, whether or not they have a users row,
\* and a handler that got the empty list attaches no reaction and returns.
C13_EmptyWithoutSubscriptions ==
    /\ \A uid \in UserIds :
          ~HasSubscription(uid) <=> getUserReactions(uid) = <<>>
    /\ \A m \in DOMAIN msgs :
          (task[m].pc = "done" /\ task[m].userReactions = <<>>)
          => ~TriedReaction(m)
    /\ \A m \in DOMAIN msgs :
          (task[m].pc = "react") => task[m].userReactions # <<>>

\* bob's message was handled while no row applied to bob, a row was added
\* since, and alice has neither a users row nor a subscription.
C13_Witness ==
    /\ reactions # <<>>
    /\ ~checkUserExists("alice")
    /\ getUserReactions("alice") = <<>>
    /\ \E m \in DOMAIN msgs :
          /\ msgs[m].author = "bob"
          /\ task[m].pc = "done"
          /\ task[m].userReactions = <<>>
          /\ Len(task[m].log) > 1

\* The Database methods that read one user's row.
UserReads ==
    {"getUserName", "getMessagesSent", "getMessagesSentRank",
     "getMessagesDeleted", "getMessagesDeletedRank"}

\* C14: a read of a user's name, counts or ranks with an id that has no
\* users row ends in a NotFound outcome: no value is returned and no other
\* exception is raised.
C14_UnknownIdReadsNotFound ==
    (ret.op \in UserReads /\ ~checkUserExists(ret.arg))
    => (ret.kind = "raise" /\ ret.value = "NotFound")

\* The invoker holds no administrator role and is no owner.
Unauthorized(invoker) == invoker \notin Administrators \cup owonerId

\* The step is one of the seven gated commands, invoked by invoker.
GatedCommand(invoker) ==
    \/ \E link \in Urls : banGif(invoker, link) \/ unbanGif(invoker, link)
    \/ \E link \in ExceptionUrls :
           addException(invoker, link) \/ removeException(invoker, link)
    \/ \E user \in ReactionTargets, reaction \in ReactionTokens :
           addReactionCommand(invoker, user, reaction)
    \/ toggleFilter(invoker)
    \/ \E status \in Statuses, type \in StatusTypes : setStatus(invoker, status, type)

\* C15: a ban, unban, add-exception, remove-exception, add-reaction,
\* toggle-filter or set-status command of an invoker who is neither
\* administrator nor owner changes no table and no configuration value and
\* answers with the refusal only.
C15_AuthorizationGate ==
    [][ \A invoker \in Invokers :
            (Unauthorized(invoker) /\ GatedCommand(invoker))
            => ( /\ UNCHANGED <<users, banned_gifs, whitelist, reactions>>
                 /\ UNCHANGED <<config, presence>>
                 /\ responses' = <<NotAdmin>> )
      ]_vars

\* A refusal was the last answer while every table holds rows and the
\* configuration was changed by authorized commands.
C15_Witness ==
    /\ responses = <<NotAdmin>>
    /\ banned_gifs # <<>>
    /\ whitelist # <<>>
    /\ reactions # <<>>
    /\ config.filterEnabled
    /\ config.statusType = "watching"

\* The step is an invocation of one of the two audit commands by invoker.
AuditInvoked(invoker) == audit(invoker) \/ auditUsernames(invoker)

\* C16: an audit command of an invoker who is no owner, administrators
\* included, asks for no history, writes nothing to the store and answers
\* with the refusal only; no audit coroutine ever runs for a non-owner.
C16_AuditsOwnerOnly ==
    [][ /\ \A invoker \in Invokers :
              (invoker \notin owonerId /\ AuditInvoked(invoker))
              => ( /\ UNCHANGED <<users, banned_gifs, whitelist, reactions>>
                   /\ auditTask'.pc = "refused"
                   /\ auditTask'.responses = <<NotOwner>>
                   /\ auditTask'.fetched = <<>>
                   /\ auditTask'.messageCount = <<>> )
        /\ auditTask'.pc \in {"ack", "history", "done"}
              => auditTask'.invoker \in owonerId
      ]_vars

\* An administrator was refused after an owner's audit had filled the store.
C16_Witness ==
    /\ auditTask.pc = "refused"
    /\ auditTask.invoker = "admin"
    /\ auditTask.runs >= 1
    /\ "bob" \in DOMAIN users

\* C17: an audit run by an owner answers with its starting notice before it
\* does any work, and when it has finished it has answered a second time,
\* with its completion notice.
C17_AcceptThenNotify ==
    /\ auditTask.pc = "ack"
          => ( /\ auditTask.responses \in {<<AuditStarting>>, <<UsernamesStarting>>}
               /\ auditTask.fetched = <<>>
               /\ auditTask.messageCount = <<>> )
    /\ auditTask.pc = "done"
          => ( /\ Len(auditTask.responses) = 2
               /\ auditTask.responses[1] \in {AuditStarting, UsernamesStarting} )

\* C18: after a message-count audit over a guild whose channel c1 is readable
\* and holds three messages of bob and whose channel c2 raises Forbidden,
\* bob's messages_sent is 3, c2 has counted nothing and the completion
\* notice was sent.
C18_PartialCoverage ==
    ( /\ auditTask.command = "messages"
      /\ auditTask.pc = "done"
      /\ channels["c1"].access = "ok"
      /\ channels["c2"].access = "Forbidden" )
    => ( /\ users["bob"].messages_sent = 3
         /\ auditTask.messageCount["c2"] = MemberCounts("c2")
         /\ auditTask.responses = <<AuditStarting, AuditComplete>> )

\* The scenario of C18 has run, on a users table that had no row of bob.
C18_Witness ==
    /\ auditTask.command = "messages"
    /\ auditTask.pc = "done"
    /\ channels["c1"].access = "ok"
    /\ channels["c2"].access = "Forbidden"
    /\ auditTask.fetched = <<"c1", "c2", "c3">>
    /\ "bob" \in DOMAIN users
    /\ "zed" \notin DOMAIN users

TextChannels == SelectSeq(ChannelOrder, LAMBDA c : ~channels[c].category)

\* C20: a channel whose history raises Forbidden or NotFound is skipped and
\* nothing else: the coroutine never ends on it, and a finished audit has
\* asked for the history of every channel of every guild, has written the
\* totals to the store and has sent the completion notice.
C20_EnumerationFailureIsolated ==
    /\ auditTask.pc \in {"none", "refused", "ack", "history", "done"}
    /\ (auditTask.command = "messages" /\ auditTask.pc = "done")
          => ( /\ auditTask.fetched = TextChannels
               /\ DOMAIN auditTask.messageCount = ChannelIds
               /\ \A c \in ChannelIds :
                      channels[c].access # "ok"
                      => auditTask.messageCount[c] = MemberCounts(c)
               /\ \A u \in DOMAIN Totals(auditTask.messageCount) :
                      /\ u \in DOMAIN users
                      /\ users[u].messages_sent = Totals(auditTask.messageCount)[u]
               /\ auditTask.responses = <<AuditStarting, AuditComplete>> )

\* An audit has finished although the histories of c1 and c2 raised; c3's
\* messages were counted.
C20_Witness ==
    /\ auditTask.command = "messages"
    /\ auditTask.pc = "done"
    /\ channels["c1"].access = "Forbidden"
    /\ channels["c2"].access = "NotFound"
    /\ channels["c3"].access = "ok"
    /\ "gone" \in DOMAIN users
    /\ users["gone"].messages_sent = 1
    /\ users["bob"].messages_sent = 0

\* The channels whose history the platform lets the bot read.
Readable == {c \in ChannelIds : ~channels[c].category /\ channels[c].access = "ok"}

\* The positions of the readable histories that hold a message of author.
Observed(author) ==
    UNION { { <<c, i>> : i \in {j \in DOMAIN channels[c].history :
                                   channels[c].history[j] = author} }
            : c \in Readable }

\* The authors of the messages of the readable histories.
ObservedAuthors ==
    UNION { {channels[c].history[i] : i \in DOMAIN channels[c].history}
            : c \in Readable }

\* C21: when a message-count audit has completed, every author of a message
\* it read has a users row, and the row's messages_sent is the number of
\* messages of that author over all the channels of all the guilds it read.
C21_TotalsWritten ==
    (auditTask.command = "messages" /\ auditTask.pc = "done")
    => \A author \in ObservedAuthors :
           /\ author \in DOMAIN users
           /\ users[author].messages_sent = Cardinality(Observed(author))

\* An audit has completed over three readable channels: alice, counted in
\* two guilds, and the deleted user got their rows from the audit.
C21_Witness ==
    /\ auditTask.command = "messages"
    /\ auditTask.pc = "done"
    /\ \A c \in ChannelIds : channels[c].access = "ok"
    /\ "zed" \notin DOMAIN users
    /\ users["alice"].messages_sent = 2
    /\ users["bob"].messages_sent = 4
    /\ users["gone"].username = "deleted user"

\* The step is the run of /audit usernames over the users table.
UsernamesReconciled ==
    /\ auditTask.command = "usernames"
    /\ auditTask.pc = "ack"
    /\ auditTask'.pc = "done"

\* C22: the run of the username audit leaves every row of a user the
\* platform resolves with the platform's name, leaves every row of a user it
\* does not resolve as it was, changes no other column of any row, and
\* neither adds nor removes a row.
C22_UsernamesReconciled ==
    [][ UsernamesReconciled
        => ( /\ DOMAIN users' = DOMAIN users
             /\ \A uid \in DOMAIN users :
                    /\ uid \in ResolvableIds => users'[uid].username = Name(uid)
                    /\ uid \notin ResolvableIds => users'[uid] = users[uid]
                    /\ users'[uid] = [users[uid] EXCEPT !.username = users'[uid].username]
             /\ UNCHANGED <<banned_gifs, whitelist, reactions>> )
      ]_vars

\* The username audit has run over a table with an outdated name and with a
\* row of a user the platform no longer resolves.
C22_Witness ==
    /\ auditTask.command = "usernames"
    /\ auditTask.pc = "done"
    /\ {"alice", "zed"} \subseteq DOMAIN users
    /\ users["alice"].username = "alice"
    /\ users["alice"].messages_sent = 5
    /\ users["zed"].username = "zed"

\* The step is the write phase of a message-count audit (lines 472-479).
AuditWrites == auditTask'.runs = auditTask.runs + 1

\* C23: the write phase of an audit leaves every user it enumerated with
\* the enumerated total, whatever the handlers of messages created since
\* the enumeration have added to the row; and the handler of a message
\* created after the write adds one to the written value.
C23_LastWriteWins ==
    [][ /\ AuditWrites
           => \A user \in DOMAIN Totals(auditTask'.messageCount) :
                  /\ user \in DOMAIN users'
                  /\ users'[user].messages_sent = Totals(auditTask'.messageCount)[user]
        /\ \A m \in MsgIds :
               (Starts(m) /\ auditTask.pc = "done" /\ msgs[m].author \in DOMAIN users)
               => users'[msgs[m].author].messages_sent
                      = users[msgs[m].author].messages_sent + 1
      ]_vars

\* bob's message was posted after the audit had read c2 (the audit counted
\* one message of bob there, the history holds two) and handled before the
\* audit wrote: bob's row holds the audit's total of four.
C23_Witness ==
    /\ auditTask.command = "messages"
    /\ auditTask.pc = "done"
    /\ auditTask.runs = 1
    /\ channels["c2"].access = "ok"
    /\ auditTask.messageCount["c2"]["bob"] = 1
    /\ channels["c2"].history = <<"bob", "alice", "bob">>
    /\ \E m \in DOMAIN msgs : msgs[m].author = "bob" /\ task[m].pc = "done"
    /\ users["bob"].messages_sent = 4

\* C24: while a message-count audit is suspended in its starting answer or
\* in a history, every handler step that is due can be taken: a queued
\* message-created event can start its handler and write the author's row,
\* a handler suspended in a delete, a notice or a reaction can resume, and a
\* message-deleted event can be handled.
C24_AuditDoesNotBlock ==
    (auditTask.command = "messages" /\ auditTask.pc \in {"ack", "history"})
    => \A m \in MsgIds :
           /\ (m \in DOMAIN msgs /\ task[m].pc = "queued") => ENABLED OnMessage(m)
           /\ task[m].pc \in {"bannedDelete", "replyDelete"}
                  => ENABLED (DeleteOk(m) \/ DeleteNotFound(m))
           /\ task[m].pc \in {"bannedSend", "replySend"} => ENABLED SendOk(m)
           /\ task[m].pc = "react" => ENABLED (ReactOk(m) \/ ReactFails(m, "NotFound"))
           /\ (m \in deleteEvents /\ task[m].pc # "queued") => ENABLED OnMessageDelete(m)

\* The audit is suspended in the history of c3.  It counted bob's new
\* message when it read c2; since then the handler of the message has
\* deleted it, sent the notice, tried bob's reaction and returned.
C24_Witness ==
    /\ auditTask.command = "messages"
    /\ auditTask.pc = "history"
    /\ ChannelOrder[auditTask.k] = "c3"
    /\ channels["c2"].access = "ok"
    /\ auditTask.messageCount["c2"]["bob"] = 2
    /\ channels["c2"].history = <<"bob", "alice">>
    /\ \E m \in DOMAIN msgs :
          /\ task[m].pc = "done"
          /\ Entries(m, "deleted") # {}
          /\ SentNotice(m)
          /\ TriedReaction(m)
          /\ users[msgs[m].author].messages_sent = 1

\* C25: over every step that is not the write phase of a message-count
\* audit (a handler's step, a platform event, a command, the username
\* audit) every users row stays and its messages_sent does not decrease.
\* messages_sent is the only count the users table stores.
C25_CountsNeverDecrease ==
    [][ ~AuditWrites
        => \A uid \in DOMAIN users :
               /\ uid \in DOMAIN users'
               /\ users'[uid].messages_sent >= users[uid].messages_sent
      ]_vars

\* bob's message was counted and deleted, on_ready has added the members,
\* an audit has written its totals and a command was refused since.
C25_Witness ==
    /\ ready = "done"
    /\ auditTask.command = "messages"
    /\ auditTask.pc = "done"
    /\ responses = <<NotAdmin>>
    /\ \E m \in DOMAIN msgs : task[m].pc = "done" /\ m \in platformDeleted
    /\ users["bob"].messages_sent = 5

\* The step is a step of an event handler, of the platform or of an audit:
\* each of them moves a coroutine or an event queue, which no command does.
HandlerOrAuditStep ==
    <<msgs, task, platformDeleted, deleteEvents, reactionEvents, ready, auditTask>>'
        # <<msgs, task, platformDeleted, deleteEvents, reactionEvents, ready, auditTask>>

\* C26: no step deletes a users row; a step of an event handler or of an
\* audit leaves banned_gifs, whitelist and reactions as they are; and a step
\* that changes one of the three tables is the table's add or remove
\* command, invoked by a user who passes the command's check (administrator
\* or owner; for removereact also the user the reaction applies to).
C26_TablesChangeByCommandsOnly ==
    [][ /\ DOMAIN users \subseteq DOMAIN users'
        /\ HandlerOrAuditStep => UNCHANGED <<banned_gifs, whitelist, reactions>>
        /\ banned_gifs' # banned_gifs
           => \E invoker \in Invokers, link \in Urls :
                  /\ checkUserAdmin(invoker)
                  /\ banGif(invoker, link) \/ unbanGif(invoker, link)
        /\ whitelist' # whitelist
           => \E invoker \in Invokers, link \in ExceptionUrls :
                  /\ checkUserAdmin(invoker)
                  /\ addException(invoker, link) \/ removeException(invoker, link)
        /\ reactions' # reactions
           => \E invoker \in Invokers, user \in ReactionTargets, reaction \in ReactionTokens :
                  \/ checkUserAdmin(invoker) /\ addReactionCommand(invoker, user, reaction)
                  \/ /\ checkUserAdmin(invoker) \/ invoker = user
                     /\ removeReactionCommand(invoker, user, reaction)
      ]_vars

\* Commands have emptied banned_gifs and reactions and filled whitelist;
\* on_ready, the handler of a message that was deleted and an audit have run.
C26_Witness ==
    /\ banned_gifs = <<>>
    /\ whitelist # <<>>
    /\ reactions = <<>>
    /\ ready = "done"
    /\ auditTask.pc = "done"
    /\ deleteEvents = {}
    /\ \E m \in DOMAIN msgs : Ended(m) /\ IssuedDelete(m) /\ m \in platformDeleted
    /\ {"bob", "owner", "alice", "gone"} \subseteq DOMAIN users

\* C27: every event that references a user id leaves the id with a users
\* row: the step that starts a message's handler (the author), the handling
\* of a message-deleted event (the deleted message's author), the handling
\* of a reaction-added event (the reacting user) and the write phase of an
\* audit (every user id it enumerated).
C27_ReferencedUserExists ==
    [][ /\ \A m \in MsgIds :
               /\ Starts(m) => msgs[m].author \in DOMAIN users'
               /\ OnMessageDelete(m) => msgs[m].author \in DOMAIN users'
        /\ \A user \in UserIds :
               on_reaction_add(user) => user \in DOMAIN users'
        /\ AuditWrites
           => DOMAIN Totals(auditTask'.messageCount) \subseteq DOMAIN users'
      ]_vars

C29_InvalidStatusTypeRejected ==
    [][ \A invoker \in Invokers, status \in Statuses, type \in StatusTypes :
            (Lower(type) \notin ValidStatusTypes /\ setStatus(invoker, status, type))
            => UNCHANGED <<config, presence>>
      ]_vars

\* An administrator has set a status, and a later /setstatus of an
\* administrator with an unknown type ended without an answer.
C29_Witness ==
    /\ responses = <<>>
    /\ config.status = "s1"
    /\ config.statusType = "Watching"
    /\ presence = [type |-> "watching", name |-> "s1"]

\* C30: a deleteMessage of the banned-media or of the reply-chain step that
\* the platform denies (Forbidden) does not end the handler with an
\* exception: no trace holds a Forbidden raised out of a delete call.
C30_DeleteDenialSkipped ==
    \A m \in DOMAIN msgs :
        \A i \in Entries(m, "raise") :
            ~( /\ i > 1
               /\ task[m].log[i].arg = "Forbidden"
               /\ task[m].log[i - 1].call = "delete" )

\* C31: the reply-chain check is evaluated only for a message that is no
\* system message and has a resolved parent; a reply whose parent is not
\* resolved and a system message skip the check without an exception and,
\* when nothing deleted the message, end after the reaction fan-out.
C31_UnresolvedParentSkipped ==
    \A m \in DOMAIN msgs :
        /\ ReplyChecked(m)
           => msgs[m].reference.kind = "resolved" /\ ~msgs[m].system
        /\ ( /\ Ended(m)
             /\ msgs[m].author # BotId
             /\ msgs[m].reference.kind = "unresolved" \/ msgs[m].system )
           => ( /\ \A i \in Entries(m, "raise") : task[m].log[i].step # "reply"
                /\ ~IssuedDelete(m)
                   => Attempts(m) = getUserReactions(msgs[m].author) )

\* The banned-media check issued a deleteMessage for m.
BannedCheckDeleted(m) ==
    \E i \in Entries(m, "delete") : task[m].log[i].step = "banned"

\* C32: the banned-media check never deletes a message of an owner, whose
\* handler goes on to the reply-chain check and the reactions; for a message
\* with a banned url of an administrator who is no owner, the first thing
\* the handler does after counting it is the check's deleteMessage.
C32_OwnersOnlyExempt ==
    \A m \in DOMAIN msgs :
        /\ msgs[m].author \in owonerId
           => /\ \A i \in 1..Len(task[m].log) : task[m].log[i].step # "banned"
              /\ task[m].pc \notin {"bannedDelete", "bannedSend"}
        /\ ( /\ msgs[m].author \in Administrators \ owonerId
             /\ checkMessageBannedGifs(msgs[m].content)
             /\ task[m].pc # "queued" )
           => ( /\ BannedCheckDeleted(m)
                /\ task[m].log[2] = Ev("delete", "banned", m, "Contains banned gif.") )

\* An owner's reply with a banned url in it went past the banned-media check
\* and through the reply-chain check, and its handler has returned.
C32_Witness ==
    \E m \in DOMAIN msgs :
        /\ msgs[m].author \in owonerId
        /\ checkMessageBannedGifs(msgs[m].content)
        /\ ReplyChecked(m)
        /\ task[m].pc = "done"
        /\ ~IssuedDelete(m)

\* C33: a ban of a url u that was not banned, followed by its unban, gives
\* back the banned urls there were; an accepted unban of u leaves u not
\* banned and every other url as banned as it was; and the banned-media
\* check deletes no message whose body contains no banned url, a body that
\* contains an unbanned u included.
C33_BanUnbanRoundTrip ==
    [][ /\ \A u \in Urls :
              /\ ( /\ ~checkGifBanned(u)
                   /\ \E invoker \in Invokers :
                          checkUserAdmin(invoker) /\ banGif(invoker, u) )
                 => ( /\ checkGifBanned(u)'
                      /\ removeBannedGif(banned_gifs', u) = banned_gifs )
              /\ ( \E invoker \in Invokers :
                       checkUserAdmin(invoker) /\ unbanGif(invoker, u) )
                 => ( /\ ~checkGifBanned(u)'
                      /\ ~checkMessageBannedGifs(u)'
                         \/ \E v \in Urls \ {u} : checkGifBanned(v)'
                      /\ \A v \in Urls \ {u} :
                             checkGifBanned(v)' <=> checkGifBanned(v) )
        /\ \A m \in MsgIds :
              ( /\ Starts(m)
                /\ \A v \in Urls :
                       checkGifBanned(v) => ~IsSubstring(v, msgs[m].content) )
              => task'[m].pc # "bannedDelete"
      ]_vars

\* The url a was banned and unbanned again, no url is banned, and bob's
\* message with a in its body has been handled without a deleteMessage.
C33_Witness ==
    /\ responses = << <<"Gif unbanned!">> >>
    /\ banned_gifs = <<>>
    /\ \E m \in DOMAIN msgs :
           /\ IsSubstring(<<"a">>, msgs[m].content)
           /\ msgs[m].author \notin owonerId
           /\ task[m].pc = "done"
           /\ ~IssuedDelete(m)

\* The place of a pipeline step in on_message: the count, the banned-media
\* check, the reply-chain check, the reactions.
Rank(step) ==
    CASE step = "sync" -> 1
      [] step = "banned" -> 2
      [] step = "reply" -> 3
      [] step = "react" -> 4

\* C34: in the trace of one message's handler the count comes first and
\* once, whatever the banned-media check does comes before whatever the
\* reply-chain check does, and both come before every attachReaction.
C34_StepsSequential ==
    \A m \in DOMAIN msgs :
        LET lg == task[m].log
        IN  /\ lg # <<>> => lg[1].call = "incrementMessagesSent"
            /\ \A i \in 2..Len(lg) : lg[i].call # "incrementMessagesSent"
            /\ \A i \in 1..Len(lg), j \in 1..Len(lg) :
                   i < j => Rank(lg[i].step) <= Rank(lg[j].step)
            /\ \A i \in 1..Len(lg) :
                   lg[i].call \in {"delete", "send", "add_reaction"}
                   => /\ lg[i].target = m
                      /\ msgs[m].author \in DOMAIN users
                      /\ users[msgs[m].author].messages_sent >= 1

\* A handler went through all the steps: it counted the message, deleted it
\* in the banned-media check, evaluated the reply-chain check and tried a
\* reaction.
C34_Witness ==
    \E m \in DOMAIN msgs :
        /\ BannedCheckDeleted(m)
        /\ ReplyChecked(m)
        /\ TriedReaction(m)
        /\ task[m].log[1].call = "incrementMessagesSent"

\* ------------------------------------------------- concurrent handlers

\* The messages delivered while other handlers are suspended: two of bob (one
\* with the banned url a in it) and one of the administrator.
ConcurrentMessages ==
    { Message("bob", <<"t", "a">>, <<NoReference, FALSE>>),
      Message("bob", <<"x">>, <<NoReference, FALSE>>),
      Message("admin", <<"t", "a">>, <<NoReference, FALSE>>) }

\* A fresh users table, a banned url and a reaction for bob; no audit runs.
ConcurrentInit ==
    /\ users = <<>>
    /\ banned_gifs = << <<"a">> >>
    /\ whitelist = <<>>
    /\ reactions = << [reaction |-> "r1", applies_to |-> "bob"] >>
    /\ msgs = <<>>
    /\ task = [m \in 1..MaxConcurrent |-> NoTask]
    /\ platformDeleted = {}
    /\ deleteEvents = {}
    /\ reactionEvents = {}
    /\ ready = "done"
    /\ CommandsIdle
    /\ AuditIdle

\* The handlers of up to MaxConcurrent messages, resumed in any order.
ConcurrentNext ==
    \/ \E m \in 1..MaxConcurrent, message \in ConcurrentMessages : PostMessage(m, message)
    \/ \E m \in 1..MaxConcurrent : OnMessage(m)
    \/ \E m \in 1..MaxConcurrent : DeleteOk(m)
    \/ \E m \in 1..MaxConcurrent : DeleteNotFound(m)
    \/ \E m \in 1..MaxConcurrent : DeleteForbidden(m)
    \/ \E m \in 1..MaxConcurrent : SendOk(m)
    \/ \E m \in 1..MaxConcurrent : SendForbidden(m)
    \/ \E m \in 1..MaxConcurrent : ReactOk(m)
    \/ \E m \in 1..MaxConcurrent, exc \in {"Forbidden", "NotFound"} : ReactFails(m, exc)
    \/ \E m \in 1..MaxConcurrent : PlatformDelete(m)
    \/ \E m \in 1..MaxConcurrent : OnMessageDelete(m)
    \/ on_reaction_add(BotId)

ConcurrentSpec == ConcurrentInit /\ [][ConcurrentNext]_vars

\* The message-created events of author whose handler has started.
Started(author) ==
    {m \in DOMAIN msgs : msgs[m].author = author /\ task[m].pc # "queued"}

\* C35: with no audit running, whatever the order in which suspended
\* handlers are resumed, each user's messages_sent is the number of that
\* user's messages whose handler has started (a user without row has none).
C35_NoLostIncrement ==
    \A u \in UserIds :
        (IF u \in DOMAIN users THEN users[u].messages_sent ELSE 0)
            = Cardinality(Started(u))

\* Two handlers for messages of bob are suspended at once, the later message
\* further on in its pipeline than the earlier one, and both are counted.
C35_Witness ==
    /\ DOMAIN msgs = {1, 2}
    /\ msgs[1].author = "bob"
    /\ msgs[2].author = "bob"
    /\ task[1].pc = "bannedDelete"
    /\ task[2].pc = "bannedSend"
    /\ "bob" \in DOMAIN users
    /\ users["bob"].messages_sent = 2

\* C36: no handler ends in the IntegrityError of an INSERT for an id that has
\* a row; the ready and message-deleted handlers insert the rows that are
\* missing and leave every existing row as it is; and no step of the
\* handlers or of the audit takes a row away or puts another in its place
\* under the same id (the name and the count alone change).
C36_UserIdUnique ==
    [][ /\ \A m \in DOMAIN msgs' :
              \A i \in 1..Len(task'[m].log) :
                  task'[m].log[i].arg # "IntegrityError"
        /\ (OnReadyMembers \/ \E m \in MsgIds : OnMessageDelete(m))
           => \A u \in DOMAIN users : u \in DOMAIN users' /\ users'[u] = users[u]
        /\ \A u \in DOMAIN users :
              /\ u \in DOMAIN users'
              /\ users'[u].apply_filter = users[u].apply_filter
        /\ \A u \in DOMAIN users' \ DOMAIN users :
              /\ users'[u].apply_filter = FALSE
              /\ users'[u].username \in {Name(u), "deleted user"}
      ]_vars

\* The ready handler, the handler of bob's message, the handler of its
\* deletion and the write phase of an audit have all come to bob's row, in
\* some order: there is one row, inserted by the first of them.
C36_Witness ==
    /\ ready = "done"
    /\ auditTask.runs >= 1
    /\ \E m \in DOMAIN msgs :
           /\ msgs[m].author = "bob"
           /\ task[m].pc \notin {"queued", "none"}
           /\ m \in platformDeleted
           /\ m \notin deleteEvents
    /\ "bob" \in DOMAIN users

\* The members of the guilds whose channels the audit walks.
EnumeratedMembers == UNION {MembersOf[c] : c \in DOMAIN channels}

\* C37: the step in which a message-count audit writes leaves every member
\* of an enumerated guild of whom no message was read (none written, or all
\* of them in channels whose history could not be read) with a row whose
\* messages_sent is 0, and leaves the messages_sent of every row of a user
\* who is neither a member nor the author of a message read as it was.
C37_UnobservedMembersZeroed ==
    [][ AuditWrites =>
          /\ \A u \in EnumeratedMembers \ ObservedAuthors :
                 /\ u \in DOMAIN users'
                 /\ users'[u].messages_sent = 0
          /\ \A u \in DOMAIN users \ (EnumeratedMembers \cup ObservedAuthors) :
                 /\ u \in DOMAIN users'
                 /\ users'[u].messages_sent = users[u].messages_sent
      ]_vars

\* An audit has completed with the histories of c2 and c3 unreadable: alice,
\* member of g2 with all her messages in unread channels, went from 5 to 0,
\* and zed, member of no guild, still has 2.
C37_Witness ==
    /\ auditTask.command = "messages"
    /\ auditTask.pc = "done"
    /\ channels["c2"].access # "ok"
    /\ channels["c3"].access # "ok"
    /\ {"alice", "zed", "owner"} \subseteq DOMAIN users
    /\ users["alice"].messages_sent = 0
    /\ users["owner"].messages_sent = 0
    /\ users["zed"].messages_sent = 2

\* ---------------------------------------------------- the default store

\* The bot connects on the database as quickstart creates it: no row in any
\* table, every column default still to be taken.
FreshInit ==
    /\ users = <<>>
    /\ banned_gifs = <<>>
    /\ whitelist = <<>>
    /\ reactions = <<>>
    /\ msgs = <<>>
    /\ task = [m \in MsgIds |-> NoTask]
    /\ platformDeleted = {}
    /\ deleteEvents = {}
    /\ reactionEvents = {}
    /\ ready = "connecting"
    /\ CommandsIdle
    /\ auditTask = NoAudit
    /\ channels \in { w \in Worlds : \A c \in ChannelIds : w[c].access = "ok" }

\* Every handler, the commands that write the store or the filter flag, and
\* both audits; bob replies to a message of alice with a classifier and the
\* url a in the body.
FreshNext ==
    \/ on_ready
    \/ OnReadyMembers
    \/ \E m \in MsgIds :
           PostMessage(m, Message("bob", <<"t", "a">>, <<ResolvedReference, FALSE>>))
    \/ HandlerNext
    \/ \E invoker \in owonerId : audit(invoker)
    \/ AuditAcked
    \/ AuditHistory
    \/ \E invoker \in owonerId : auditUsernames(invoker)
    \/ AuditUsernamesAcked
    \/ \E invoker \in Administrators : banGif(invoker, <<"a">>)
    \/ \E invoker \in Administrators : unbanGif(invoker, <<"a">>)
    \/ \E invoker \in Administrators, link \in ExceptionUrls : addException(invoker, link)
    \/ \E invoker \in Administrators, link \in ExceptionUrls : removeException(invoker, link)
    \/ \E invoker \in Administrators, user \in ReactionTargets :
           addReactionCommand(invoker, user, "r1")
    \/ \E invoker \in Administrators, user \in ReactionTargets :
           removeReactionCommand(invoker, user, "r1")
    \/ \E invoker \in Administrators : toggleFilter(invoker)

FreshSpec == FreshInit /\ [][FreshNext]_vars

\* C38: from a store without opted-in user, no user is ever opted in to
\* filtering, whatever handlers, commands and audits run, and the
\* reply-chain check issues no deleteMessage.
C38_NobodyOptsIn ==
    /\ filteredUsers(users) = {}
    /\ \A m \in DOMAIN msgs : ~ReplyCheckDeleted(m)

\* bob's reply to alice, with a classifier in its body, went through the
\* reply-chain check while alice had a row, after the filter was toggled on
\* and an audit had run; it was not deleted.
C38_Witness ==
    /\ config.filterEnabled
    /\ auditTask.runs >= 1
    /\ ready = "done"
    /\ "alice" \in DOMAIN users
    /\ \E m \in DOMAIN msgs :
           /\ ReplyChecked(m)
           /\ HasClassifier(msgs[m].content)
           /\ msgs[m].reference.author = "alice"
           /\ task[m].pc = "done"
           /\ ~IssuedDelete(m)

\* --------------------------------------------------- the filter toggle

\* The pipeline over every kind of message while the filter is toggled.
FilterNext ==
    \/ EngineNext
    \/ \E invoker \in Invokers : toggleFilter(invoker)

FilterSpec == EngineInit /\ [][FilterNext]_vars

\* What the engine does for message m is what the message and the store
\* make it do, config.filterEnabled left aside: the count, the delete of the
\* banned-media check, the evaluation and the delete of the reply-chain
\* check, and the reactions tried.
EngineDecisions(m) ==
    LET a == msgs[m].author
        started == task[m].pc \notin {"none", "queued"}
    IN  /\ started
           => /\ a \in DOMAIN users
              /\ users[a].messages_sent = Cardinality(Started(a))
        /\ BannedCheckDeleted(m)
           <=> ( /\ started
                 /\ a # BotId
                 /\ a \notin owonerId
                 /\ checkMessageBannedGifs(msgs[m].content) )
        /\ ( /\ task[m].pc \in {"replyDelete", "replySend", "react", "done"}
             /\ a # BotId
             /\ msgs[m].reference.kind = "resolved"
             /\ ~msgs[m].system )
           => ReplyChecked(m)
        /\ ReplyChecked(m)
           => ( ReplyCheckDeleted(m)
                <=> ( /\ ReplyToFiltered(m)
                      /\ HasClassifier(msgs[m].content)
                      /\ ~InList(msgs[m].content, whitelist) ) )
        /\ \A i \in 1..Len(Attempts(m)) :
               /\ i <= Len(getUserReactions(a))
               /\ Attempts(m)[i] = getUserReactions(a)[i]
        /\ task[m].pc = "done" /\ a # BotId
           => Attempts(m) = getUserReactions(a)

ReactionInit ==
    /\ users \in InitialUsers
    /\ banned_gifs = <<>>
    /\ whitelist = <<>>
    /\ reactions \in
           { <<>>,
             << [reaction |-> "r1", applies_to |-> "bob"],
                [reaction |-> "r2", applies_to |-> "bob"],
                [reaction |-> "r1", applies_to |-> "bob"],
                [reaction |-> "r1", applies_to |-> "alice"] >> }
    /\ EngineIdle
    /\ CommandsIdle
    /\ AuditIdle

\* The reaction commands, invoked by the owner, an administrator and bob for
\* bob and for alice, and the Database methods under them.
ReactionNext ==
    \/ \E invoker \in Invokers, user \in ReactionTargets, reaction \in ReactionTokens :
           addReactionCommand(invoker, user, reaction)
    \/ \E invoker \in Invokers, user \in StoreIds, reaction \in ReactionTokens :
           removeReactionCommand(invoker, user, reaction)
    \/ \E appliesTo \in StoreIds : CallAddReaction("r1", appliesTo)
    \/ \E appliesTo \in StoreIds : CallRemoveReaction("r1", appliesTo)

ReactionSpec == ReactionInit /\ [][ReactionNext]_vars

\* The number of rows of tbl with the pair (reaction, appliesTo).
RowsOf(tbl, reaction, appliesTo) ==
    Cardinality({i \in 1..Len(tbl) :
                    tbl[i].reaction = reaction /\ tbl[i].applies_to = appliesTo})

\* The step took every row of the pair (reaction, appliesTo) out of the
\* reactions table and left the rows of every other pair as they were.
PairRemoved(reaction, appliesTo) ==
    /\ RowsOf(reactions', reaction, appliesTo) = 0
    /\ Len(reactions') = Len(reactions) - RowsOf(reactions, reaction, appliesTo)
    /\ \A r \in ReactionTokens, t \in UserIds :
           (r # reaction \/ t # appliesTo)
           => RowsOf(reactions', r, t) = RowsOf(reactions, r, t)
    /\ \A t \in UserIds \ {appliesTo} : getUserReactions(t)' = getUserReactions(t)

\* C40: removeReaction takes out every row of the pair, duplicates
\* included, and no row of another reaction or another target; the remove
\* command does so when its invoker is an admin or the target user, and
\* otherwise refuses and leaves the table as it is.
C40_RemoveReactionFrame ==
    [][ /\ \A appliesTo \in StoreIds :
              CallRemoveReaction("r1", appliesTo) => PairRemoved("r1", appliesTo)
        /\ \A invoker \in Invokers, user \in StoreIds, reaction \in ReactionTokens :
              removeReactionCommand(invoker, user, reaction)
              => IF checkUserAdmin(invoker) \/ invoker = user
                 THEN /\ PairRemoved(reaction, user)
                      /\ responses' = << <<"Removed reaction", reaction, user>> >>
                 ELSE /\ reactions' = reactions
                      /\ responses' = <<NotAdmin>>
      ]_vars

\* The remove command for (r1, bob) was accepted on the table that held the
\* pair twice: both rows are gone, the rows of r2 for bob and of r1 for alice
\* are still there.
C40_Witness ==
    /\ responses = << <<"Removed reaction", "r1", "bob">> >>
    /\ reactions = << [reaction |-> "r2", applies_to |-> "bob"],
                      [reaction |-> "r1", applies_to |-> "alice"] >>

==========================================================================
